---- MODULE Spec2Model ----
(***************************************************************************)
(* ZipDrop: the traversal / exclusion / archival pipeline.                 *)
(*                                                                         *)
(* A file or directory name is a sequence of characters, a relative path   *)
(* is the sequence of its names (the code joins them with "/"; a name      *)
(* never holds a "/", so the sequence and the joined string determine each *)
(* other).  A glob pattern is the sequence of its "/"-separated segments.  *)
(***************************************************************************)
EXTENDS Integers, Sequences, FiniteSets, TLC

VARIABLES
    disk,             \* the content of the folder the user can pick (fixed)
    excludePatterns,  \* page: usePersistedPatterns().patterns
    directoryHandle,  \* page: 0 = null, k > 0 = the handle of the k-th pick
    unselectedPaths,  \* page: the copy of the manual exclusion set
    rawSize,          \* page
    fileCount,        \* page
    isZipping,        \* page
    progress,         \* page: <<>> = null, << [current, total] >> otherwise
    tree,             \* preview: <<>> = null, << root node >> otherwise
    treeOf,           \* history: the patterns the tree was built with
    excludedPaths,    \* preview: the manual exclusion set
    isLoading,        \* preview
    scans,            \* readTree promises in flight
    builds,           \* the createZip invocations of this session
    downloads,        \* the archives handed to the browser's download
    localRecords,     \* completion records given to recordZipCreation
    remoteRecords,    \* completion records given to recordGlobalEvent
    last,             \* history: the selection operation that acted last
    used,             \* history: the number of user actions taken so far
    budget,           \* the user actions and builds a behaviour may take
    store,            \* localStorage['zipdrop:excludePatterns']: <<>> or << text >>
    isEnabled,        \* useGlobalStats: Boolean(API_BASE_URL)
    posts,            \* the POSTs of recordEvent and what became of them
    probe,            \* a pure function under study: its input and its output
    now,              \* the clock, in the 2-second steps of a ZIP entry's date
    picking,          \* the showDirectoryPicker() and getAsFileSystemHandle() calls pending
    isOpen,           \* PatternPresets: the menu of the presets is open
    zipFileName       \* the text of the Output Filename input

vars == << disk, excludePatterns, directoryHandle, unselectedPaths, rawSize,
           fileCount, isZipping, progress, tree, treeOf, excludedPaths,
           isLoading, scans, builds, downloads, localRecords, remoteRecords,
           last, used, budget, store, isEnabled, posts, probe, now, picking,
           isOpen, zipFileName >>

----------------------------------------------------------------------------
(* Bounds of the model *)

MaxEntries == 4         \* entries of the folder, for the tree and selection functions
MaxSessionEntries == 2  \* entries of the folder a session picks
MaxPatterns == 2        \* length of the pattern list
MaxActions == 2         \* user actions (pick, reset, edit, selection) in a session
MaxBuilds == 1          \* createZip invocations in one session
MaxRepeats == 2         \* createZip invocations in a session that builds again
MaxTime == 1            \* clock values 0..MaxTime, in steps of the date of a ZIP entry
MaxPending == 2         \* picker and drop requests pending at a time

----------------------------------------------------------------------------
(* Names *)

ROOT == <<"X">>
A_LOG == <<"a", ".", "l", "o", "g">>
B_TXT == <<"b", ".", "t", "x", "t">>
C_TXT == <<"c", ".", "t", "x", "t">>
D_LOG == <<"d", ".", "l", "o", "g">>
E_TXT == <<"e", ".", "t", "x", "t">>
SRC == <<"s", "r", "c">>
PKG == <<"p", "k", "g">>
INDEX_JS == <<"i", "n", "d", "e", "x", ".", "j", "s">>
NODE_MODULES == <<"n", "o", "d", "e", "_", "m", "o", "d", "u", "l", "e", "s">>
MANIFEST == <<"_", "Z", "I", "P", "D", "R", "O", "P", "_", "M", "A", "N", "I",
              "F", "E", "S", "T", ".", "t", "x", "t">>
STAR == <<"*">>
GLOBSTAR == <<"*", "*">>

RECURSIVE SumSeq(_)
SumSeq(s) == IF s = <<>> THEN 0 ELSE Head(s) + SumSeq(Tail(s))

RECURSIVE Flatten(_)
Flatten(ss) == IF ss = <<>> THEN <<>> ELSE Head(ss) \o Flatten(Tail(ss))

Range(s) == { s[i] : i \in 1..Len(s) }

\* Is q a path strictly below p, i.e. does the joined q start with p + "/" ?
StartsWithDir(q, p) == Len(q) > Len(p) /\ SubSeq(q, 1, Len(p)) = p

----------------------------------------------------------------------------
(* The file system: what the directory handles enumerate *)

\* A file: its byte length, the length DEFLATE gives its bytes, and its bytes
\* (a token: two files of the model never hold the same bytes).
File(name, size, packed, data) ==
    [name |-> name, kind |-> "file", size |-> size, packed |-> packed,
     data |-> data, entries |-> <<>>]

Dir(name, entries) ==
    [name |-> name, kind |-> "directory", size |-> 0, packed |-> 0,
     data |-> 0, entries |-> entries]

\* Every entry a picked folder may hold; a folder of the model holds some of them.
Skeleton ==
    Dir(ROOT, <<
        File(A_LOG, 10, 8, 1),
        File(B_TXT, 20, 12, 2),
        Dir(ROOT, << File(C_TXT, 40, 25, 3) >>),
        Dir(NODE_MODULES, << Dir(PKG, << File(INDEX_JS, 7, 9, 4) >>) >>),
        Dir(SRC, << File(D_LOG, 100, 60, 5), File(E_TXT, 0, 2, 6) >>),
        File(MANIFEST, 5000, 3000, 7) >>)

RECURSIVE EntryPaths(_, _, _)
\* The relative paths of the entries of the given kind below a directory.
EntryPaths(entries, relPath, kind) ==
    IF entries = <<>> THEN {}
    ELSE LET e == Head(entries)
             p == Append(relPath, e.name)
         IN (IF e.kind = kind THEN {p} ELSE {})
            \cup EntryPaths(e.entries, p, kind)
            \cup EntryPaths(Tail(entries), relPath, kind)

RECURSIVE Keep(_, _, _)
\* The entries whose relative path is in keep, in the skeleton's order.
Keep(entries, relPath, keep) ==
    IF entries = <<>> THEN <<>>
    ELSE LET e == Head(entries)
             p == Append(relPath, e.name)
             rest == Keep(Tail(entries), relPath, keep)
         IN IF p \notin keep THEN rest
            ELSE << [e EXCEPT !.entries = Keep(e.entries, p, keep)] >> \o rest

SkeletonPaths ==
    EntryPaths(Skeleton.entries, <<>>, "file")
        \cup EntryPaths(Skeleton.entries, <<>>, "directory")

PrefixClosed(keep) ==
    \A p \in keep : Len(p) > 1 => SubSeq(p, 1, Len(p) - 1) \in keep

\* The folders of the model: at most MaxEntries entries of the skeleton, each
\* with the directories above it (a directory may be empty).
Disks ==
    { [Skeleton EXCEPT !.entries = Keep(Skeleton.entries, <<>>, keep)] :
        keep \in { k \in SUBSET SkeletonPaths :
                     Cardinality(k) <= MaxEntries /\ PrefixClosed(k) } }

SessionDisks ==
    { [Skeleton EXCEPT !.entries = Keep(Skeleton.entries, <<>>, keep)] :
        keep \in { k \in SUBSET SkeletonPaths :
                     Cardinality(k) <= MaxSessionEntries /\ PrefixClosed(k) } }

DiskFiles(d) == EntryPaths(d.entries, <<>>, "file")
DiskDirs(d) == EntryPaths(d.entries, <<>>, "directory")

RECURSIVE Lookup(_, _)
\* The entry at a relative path (the path is one of the folder's).
Lookup(dir, p) ==
    IF p = <<>> THEN dir
    ELSE Lookup(CHOOSE e \in Range(dir.entries) : e.name = Head(p), Tail(p))

----------------------------------------------------------------------------
(* Pattern Matcher: minimatch with { dot: true } on the patterns of the model *)

RECURSIVE GlobSegment(_, _)
\* One path segment against one pattern segment; "*" stands for any run of
\* characters of the segment.
GlobSegment(pat, name) ==
    IF pat = <<>> THEN name = <<>>
    ELSE IF Head(pat) = "*"
         THEN \/ GlobSegment(Tail(pat), name)
              \/ name # <<>> /\ GlobSegment(pat, Tail(name))
         ELSE /\ name # <<>>
              /\ Head(name) = Head(pat)
              /\ GlobSegment(Tail(pat), Tail(name))

RECURSIVE MinimatchMatch(_, _)
\* m.match(path): the whole path against the whole pattern, segment by
\* segment; a "**" segment before other segments stands for any number of
\* segments, none included, and a "**" that ends the pattern for all the
\* segments that are left, of which there is at least one ("dist/**" does
\* not match "dist").
MinimatchMatch(pattern, path) ==
    IF pattern = <<>> THEN path = <<>>
    ELSE IF Head(pattern) = GLOBSTAR
         THEN IF Tail(pattern) = <<>> THEN path # <<>>
              ELSE \/ MinimatchMatch(Tail(pattern), path)
                   \/ path # <<>> /\ MinimatchMatch(pattern, Tail(path))
         ELSE /\ path # <<>>
              /\ GlobSegment(Head(pattern), Head(path))
              /\ MinimatchMatch(Tail(pattern), Tail(path))

normalizedAsTyped(p) == p

\* p.startsWith('**/') || p.includes('/') ? p : `**/${p}`
normalized(p) ==
    IF (Len(p) > 1 /\ Head(p) = GLOBSTAR) \/ Len(p) > 1 THEN p ELSE <<GLOBSTAR>> \o p

matchers(patterns) == [i \in 1..Len(patterns) |-> normalized(patterns[i])]

\* matchers.some(m => m.match(path))
isExcluded(path, patterns) ==
    \E i \in 1..Len(patterns) : MinimatchMatch(matchers(patterns)[i], path)

isExcludedByPattern(path, patterns) == isExcluded(path, patterns)

\* unselectedPaths.includes(path)
isUncheckedManually(path, unselected) == path \in unselected

\* "*.log", one of the default patterns.
LogPattern == << STAR \o <<".", "l", "o", "g">> >>

\* The patterns a user of the model may enter.
PatternUniverse ==
    { LogPattern,                                \* *.log
      <<NODE_MODULES>>,                          \* node_modules
      <<ROOT>>,                                  \* X
      <<SRC, E_TXT>> }                           \* src/e.txt

NoDuplicates(s) == \A i, j \in 1..Len(s) : s[i] = s[j] => i = j

PatternLists ==
    UNION { { s \in [1..n -> PatternUniverse] : NoDuplicates(s) } : n \in 0..MaxPatterns }

----------------------------------------------------------------------------
(* Tree Builder *)

FileNode(name, path, size) ==
    [name |-> name, path |-> path, kind |-> "file", size |-> size, children |-> <<>>]

DirNode(name, path, children) ==
    [name |-> name, path |-> path, kind |-> "directory", size |-> 0, children |-> children]

nodeAlways(node) == << node >>

\* return node.children!.length ? node : null
nodeOrNull(node) == IF Len(node.children) > 0 THEN << node >> ELSE <<>>

RECURSIVE readTreeWalk(_, _, _), readTreeEntries(_, _, _, _)

\* The for-await loop of readTree over the entries of dir: the child nodes it
\* pushes and the directories whose entries it enumerates on the way.
readTreeEntries(dir, entries, path, patterns) ==
    IF entries = <<>> THEN [children |-> <<>>, enumerated |-> {}]
    ELSE LET handle == Head(entries)
             subPath == Append(path, handle.name)
             rest == readTreeEntries(dir, Tail(entries), path, patterns)
         IN IF isExcluded(subPath, patterns) THEN rest
            ELSE IF handle.kind = "directory"
                 THEN LET child == readTreeWalk(handle, subPath, patterns)
                      IN [children |-> child.node \o rest.children,
                          enumerated |-> child.enumerated \cup rest.enumerated]
                 ELSE [children |->
                           << FileNode(handle.name, subPath, handle.size) >>
                               \o rest.children,
                       enumerated |-> rest.enumerated]

\* readTree(dir, path): node is <<>> for null.  The root call has path = <<>>
\* (the empty string), and then the node's path is dir.name.
readTreeWalk(dir, path, patterns) ==
    LET fullPath == IF path # <<>> THEN path ELSE <<dir.name>>
        name == fullPath[Len(fullPath)]
        loop == readTreeEntries(dir, dir.entries, path, patterns)
    IN [node |-> nodeOrNull(DirNode(name, fullPath, loop.children)),
        enumerated |-> {path} \cup loop.enumerated]

readTree(dir, patterns) == readTreeWalk(dir, <<>>, patterns).node

\* The relative paths of the directories readTree(root) enumerates.
readTreeEnumerated(dir, patterns) == readTreeWalk(dir, <<>>, patterns).enumerated

RECURSIVE Nodes(_)
\* The nodes of a tree (a set: two nodes that agree in every field are one).
Nodes(n) == {n} \cup UNION { Nodes(n.children[i]) : i \in 1..Len(n.children) }

TreeNodes(t) == IF t = <<>> THEN {} ELSE Nodes(t[1])

RECURSIVE NodeList(_)
\* The nodes of a tree, one item per node, parents first.
NodeList(n) ==
    <<n>> \o Flatten([i \in 1..Len(n.children) |-> NodeList(n.children[i])])

----------------------------------------------------------------------------
(* Selection State *)

RECURSIVE collectPathsList(_)
\* [n.path, ...(n.children?.flatMap(collectPaths) ?? [])]
collectPathsList(n) ==
    <<n.path>> \o Flatten([i \in 1..Len(n.children) |-> collectPathsList(n.children[i])])

collectPaths(n) == Range(collectPathsList(n))

toggleCheckboxAddOnly(excluded, node) == excluded \cup collectPaths(node)

toggleCheckboxOwnPath(excluded, node) ==
    IF node.path \in excluded THEN excluded \ {node.path}
    ELSE excluded \cup {node.path}

\* The set toggleCheckbox(node) hands to setExcludedPaths.
toggleCheckbox(excluded, node) ==
    LET all == collectPaths(node)
        isRemoving == node.path \in excluded
    IN IF isRemoving THEN excluded \ all ELSE excluded \cup all

selectAll == {}

\* A set that leaves the root node in.
deselectAllBelowRoot(t) == collectPaths(t[1]) \ {t[1].path}

\* if (!tree) return; setExcludedPaths(new Set(collectPaths(tree)))
deselectAll(t) == collectPaths(t[1])

RECURSIVE countStatsOwnPath(_, _), countStats(_, _), countStatsChildren(_, _)

\* A walk that skips an excluded node but not the subtree below it.
countStatsOwnPath(n, excluded) ==
    IF n.kind = "file"
    THEN IF n.path \in excluded THEN [files |-> 0, folders |-> 0, size |-> 0]
         ELSE [files |-> 1, folders |-> 0, size |-> n.size]
    ELSE LET c == countStatsChildren(n.children, excluded)
         IN [files |-> c.files,
             folders |-> c.folders + (IF n.path \in excluded THEN 0 ELSE 1),
             size |-> c.size]

countStatsChildren(children, excluded) ==
    IF children = <<>> THEN [files |-> 0, folders |-> 0, size |-> 0]
    ELSE LET a == countStats(Head(children), excluded)
             b == countStatsChildren(Tail(children), excluded)
         IN [files |-> a.files + b.files, folders |-> a.folders + b.folders,
             size |-> a.size + b.size]

\* countStats(n): the totals it adds for the subtree of n.
countStats(n, excluded) ==
    IF n.path \in excluded THEN [files |-> 0, folders |-> 0, size |-> 0]
    ELSE IF n.kind = "file" THEN [files |-> 1, folders |-> 0, size |-> n.size]
    ELSE LET c == countStatsChildren(n.children, excluded)
         IN [files |-> c.files, folders |-> c.folders + 1, size |-> c.size]

RECURSIVE countedFiles(_, _)
\* The paths of the File nodes at which countStats(n) does stats.files++.
countedFiles(n, excluded) ==
    IF n.path \in excluded THEN {}
    ELSE IF n.kind = "file" THEN {n.path}
    ELSE UNION { countedFiles(n.children[i], excluded) : i \in 1..Len(n.children) }

\* tree ? countStats(tree) : { size: 0, files: 0 }
treeStats(t, excluded) ==
    IF t # <<>> THEN countStats(t[1], excluded)
    ELSE [files |-> 0, folders |-> 0, size |-> 0]

\* The effect on [excludedPaths, tree]: what the preview hands to
\* onExcludePathsChange, which handleExcludePathsChange stores in the page:
\* << unselectedPaths, rawSize, fileCount >>.
reported(t, excluded) ==
    << excluded, treeStats(t, excluded).size, treeStats(t, excluded).files >>

----------------------------------------------------------------------------
(* The stored pattern list (usePersistedPatterns) *)

\* JSON.stringify of a string array: the text, token by token.
JSONstringify(list) ==
    << [t |-> "[", v |-> <<>>] >>
        \o Flatten([i \in 1..Len(list) |->
                        (IF i = 1 THEN <<>> ELSE << [t |-> ",", v |-> <<>>] >>)
                            \o << [t |-> "string", v |-> list[i]] >>])
        \o << [t |-> "]", v |-> <<>>] >>

\* JSON.parse of such a text: the strings between the brackets, in order.
JSONparse(text) ==
    LET IsString(x) == x.t = "string"
        strings == SelectSeq(text, IsString)
    IN [i \in 1..Len(strings) |-> strings[i].v]

\* usePersistedPatterns during a commit: the patterns of the render, the
\* store, and the setPatterns calls the effects have queued.
\* First effect: saved = getItem(KEY); if (saved) setPatterns(JSON.parse(saved))
loadEffect(st) ==
    IF st.store # <<>>
    THEN [st EXCEPT !.queue = Append(@, JSONparse(st.store[1]))]
    ELSE st

\* Second effect: setItem(KEY, JSON.stringify(patterns))
saveEffect(st) == [st EXCEPT !.store = << JSONstringify(st.patterns) >>]

\* The first commit of the hook: useState([]), both effects in order, under
\* StrictMode both effects once more, then the render of the queued
\* setPatterns calls (the last one wins) and the second effect for it.
startUp(saved, strict) ==
    LET first == saveEffect(loadEffect([patterns |-> <<>>, store |-> saved,
                                        queue |-> <<>>]))
        st == IF strict THEN saveEffect(loadEffect(first)) ELSE first
    IN IF st.queue = <<>> THEN st
       ELSE saveEffect([st EXCEPT !.patterns = st.queue[Len(st.queue)], !.queue = <<>>])

\* The page has run its start-up effects.
Mounted == probe.fn # "mount"

----------------------------------------------------------------------------
(* History records and the values of the variables an action leaves alone *)

NoProbe == [fn |-> "none", in |-> <<>>, out |-> <<>>]

NoNode == FileNode(<<>>, <<>>, 0)

\* last: the operation that acted last, the excluded set it found (before),
\* the excluded set found by the toggle of the same node right before it
\* (prev, <<>> when there was none), and for a tree build the directories
\* whose entries it enumerated.
NoOp == [op |-> "none", node |-> NoNode, before |-> {}, prev |-> <<>>, enumerated |-> {}]

BuiltOp(dir, patterns) ==
    [NoOp EXCEPT !.op = "readTree", !.enumerated = readTreeEnumerated(dir, patterns)]

ToggleOp(node) ==
    [NoOp EXCEPT !.op = "toggle", !.node = node, !.before = excludedPaths,
                 !.prev = IF last.op = "toggle" /\ last.node = node
                          THEN << last.before >> ELSE <<>>]

\* What no handler writes.
env == << disk, budget, isEnabled, probe, now >>
fixed == << env, picking, isOpen, zipFileName >>

pageVars == << directoryHandle, isZipping, progress >>
buildVars == << builds, downloads, localRecords, remoteRecords, posts >>

----------------------------------------------------------------------------
(* SpecSel: the Tree Builder and the Selection State as functions of their *)
(* inputs: every folder and pattern list of the model, every excluded set  *)
(* the operations can produce.                                             *)

\* The paths of the folder that have no node in the tree: an excluded set can
\* hold one, left by a toggle made before the patterns changed.
DeadPaths(d, t) ==
    (DiskFiles(d) \cup DiskDirs(d)) \ { n.path : n \in TreeNodes(t) }

\* A folder of five files, larger than the folders of Disks.
FiveFiles ==
    [Skeleton EXCEPT !.entries =
        Keep(Skeleton.entries, <<>>,
             { <<A_LOG>>, <<B_TXT>>, <<MANIFEST>>, <<SRC>>, <<SRC, D_LOG>>, <<SRC, E_TXT>> })]

SelInit ==
    /\ disk \in Disks \cup {FiveFiles}
    /\ excludePatterns \in PatternLists
    /\ tree = readTree(disk, excludePatterns)
    /\ treeOf = excludePatterns
    /\ excludedPaths \in {{}} \cup { {p} : p \in DeadPaths(disk, tree) }
    /\ last = BuiltOp(disk, excludePatterns)
    /\ directoryHandle = 1
    /\ unselectedPaths = reported(tree, excludedPaths)[1]
    /\ rawSize = reported(tree, excludedPaths)[2]
    /\ fileCount = reported(tree, excludedPaths)[3]
    /\ isZipping = FALSE
    /\ progress = <<>>
    /\ isLoading = FALSE
    /\ scans = <<>>
    /\ builds = <<>>
    /\ downloads = <<>>
    /\ localRecords = <<>>
    /\ remoteRecords = <<>>
    /\ used = 0
    /\ budget = [actions |-> 0, builds |-> 0]
    /\ store = << JSONstringify(excludePatterns) >>
    /\ isEnabled = FALSE
    /\ posts = <<>>
    /\ probe = NoProbe
    /\ now = 0
    /\ picking = 0
    /\ isOpen = FALSE
    /\ zipFileName = (IF directoryHandle = 0 THEN <<>> ELSE disk.name)

\* The effect runs after the render that follows a change of excludedPaths
\* or tree, before the next event is handled.
ReportEffect ==
    /\ unselectedPaths' = reported(tree', excludedPaths')[1]
    /\ rawSize' = reported(tree', excludedPaths')[2]
    /\ fileCount' = reported(tree', excludedPaths')[3]

SelUnchanged ==
    /\ ReportEffect
    /\ UNCHANGED << fixed, pageVars, buildVars, isLoading, scans, used >>

SelToggle ==
    \E node \in TreeNodes(tree) :
        /\ excludedPaths' = toggleCheckbox(excludedPaths, node)
        /\ last' = ToggleOp(node)
        /\ UNCHANGED << excludePatterns, store, tree, treeOf >>
        /\ SelUnchanged

SelSelectAll ==
    /\ tree # <<>>
    /\ excludedPaths' = selectAll
    /\ last' = [NoOp EXCEPT !.op = "selectAll", !.before = excludedPaths,
                             !.prev = IF last.op = "deselectAll"
                                      THEN << last.before >> ELSE <<>>]
    /\ UNCHANGED << excludePatterns, store, tree, treeOf >>
    /\ SelUnchanged

SelDeselectAll ==
    /\ tree # <<>>
    /\ excludedPaths' = deselectAll(tree)
    /\ last' = [NoOp EXCEPT !.op = "deselectAll", !.before = excludedPaths]
    /\ UNCHANGED << excludePatterns, store, tree, treeOf >>
    /\ SelUnchanged


SpecSel == SelInit /\ [][SelToggle \/ SelSelectAll \/ SelDeselectAll]_vars

----------------------------------------------------------------------------
(* Properties of the Tree Builder and the Selection State (SpecSel) *)

SubtreePaths(n) == { m.path : m \in Nodes(n) }

RECURSIVE Chains(_, _)
\* Every node below n with the paths of the nodes from the root down to it.
Chains(n, above) ==
    { [node |-> n, chain |-> above \cup {n.path}] }
        \cup UNION { Chains(n.children[i], above \cup {n.path}) : i \in 1..Len(n.children) }

\* The File nodes none of whose ancestors, the node included, is excluded.
IncludedFiles(t, excluded) ==
    IF t = <<>> THEN {}
    ELSE { c.node : c \in { c \in Chains(t[1], {}) :
                               c.node.kind = "file" /\ c.chain \cap excluded = {} } }

RECURSIVE SumOfSizes(_)
SumOfSizes(S) ==
    IF S = {} THEN 0
    ELSE LET x == CHOOSE x \in S : TRUE IN x.size + SumOfSizes(S \ {x})

\* The files of the folder neither matched by a pattern nor below a matched
\* directory.
Survivors(d, patterns) ==
    { f \in DiskFiles(d) : \A k \in 1..Len(f) : ~isExcluded(SubSeq(f, 1, k), patterns) }

DiskOf(keep) == [Skeleton EXCEPT !.entries = Keep(Skeleton.entries, <<>>, keep)]

\* C2: after a tree build, a directory whose relative path D the matcher
\* excludes was never enumerated, and no node of the tree has the path D or a
\* path that starts with D/.
C2_SubtreePruned ==
    last.op = "readTree" =>
        \A D \in DiskDirs(disk) :
            isExcluded(D, treeOf) =>
                /\ D \notin last.enumerated
                /\ \A n \in TreeNodes(tree) : n.path # D /\ ~StartsWithDir(n.path, D)

\* C2 without the root node, whose path is the name of the picked folder and
\* not a relative path.
C2_SubtreePrunedBelowRoot ==
    last.op = "readTree" =>
        \A D \in DiskDirs(disk) :
            isExcluded(D, treeOf) =>
                /\ D \notin last.enumerated
                /\ \A n \in TreeNodes(tree) \ Range(tree) :
                      n.path # D /\ ~StartsWithDir(n.path, D)

\* C5: the file count and the byte total of countStats are those of the File
\* nodes with no excluded node on the way from the root to them; pattern
\* *.log over a.log (10 bytes) and b.txt (20 bytes) gives 1 file, 20 bytes.
C5_StatsAreIncludedFiles ==
    /\ fileCount = Cardinality(IncludedFiles(tree, excludedPaths))
    /\ rawSize = SumOfSizes(IncludedFiles(tree, excludedPaths))
    /\ treeStats(tree, excludedPaths).files = fileCount
    /\ treeStats(tree, excludedPaths).size = rawSize
    /\ ( /\ disk = DiskOf({<<A_LOG>>, <<B_TXT>>})
         /\ treeOf = <<LogPattern>>
         /\ excludedPaths = {} ) => fileCount = 1 /\ rawSize = 20

\* A file of an excluded directory is left out although its own path is not
\* in the excluded set, and another file is counted.
C5_Witness ==
    /\ \E n \in TreeNodes(tree) :
          /\ n.kind = "file"
          /\ n.path \notin excludedPaths
          /\ n \notin IncludedFiles(tree, excludedPaths)
    /\ fileCount > 0
    /\ rawSize > 0

\* C6 as stated: two toggles of a directory node in succession restore the
\* membership of every path of its subtree, from any excluded set.
C6_ToggleTwiceRestores ==
    (last.op = "toggle" /\ last.prev # <<>> /\ last.node.kind = "directory") =>
        \A p \in SubtreePaths(last.node) :
            p \in excludedPaths <=> p \in last.prev[1]

Uniform(excluded, n) ==
    \/ SubtreePaths(n) \subseteq excluded
    \/ SubtreePaths(n) \cap excluded = {}

\* C6 amended: two toggles of a directory node in succession restore the
\* membership of every path of its subtree when the subtree was all in or
\* all out of the excluded set before the first of them.
C6_ToggleTwiceRestoresUniform ==
    ( /\ last.op = "toggle"
      /\ last.prev # <<>>
      /\ last.node.kind = "directory"
      /\ Uniform(last.prev[1], last.node) ) =>
        \A p \in SubtreePaths(last.node) :
            p \in excludedPaths <=> p \in last.prev[1]

\* A directory with two nodes below it, all excluded, toggled twice.
C6_Witness ==
    /\ last.op = "toggle"
    /\ last.prev # <<>>
    /\ last.node.kind = "directory"
    /\ Cardinality(SubtreePaths(last.node)) >= 3
    /\ SubtreePaths(last.node) \subseteq last.prev[1]
    /\ SubtreePaths(last.node) \subseteq excludedPaths

\* C7: after toggle(node) no path of the subtree is excluded if node.path was
\* excluded before, every path of the subtree is excluded otherwise, and every
\* other path is excluded exactly if it was before.
C7_ToggleAllInOrAllOut ==
    last.op = "toggle" =>
        /\ last.node.path \in last.before =>
              SubtreePaths(last.node) \cap excludedPaths = {}
        /\ last.node.path \notin last.before =>
              SubtreePaths(last.node) \subseteq excludedPaths
        /\ \A p \in (excludedPaths \cup last.before) \ SubtreePaths(last.node) :
              p \in excludedPaths <=> p \in last.before

\* A directory in a mixed state (itself excluded, a descendant not) was
\* toggled while a path outside its subtree was excluded.
C7_Witness ==
    /\ last.op = "toggle"
    /\ last.node.kind = "directory"
    /\ last.node.path \in last.before
    /\ ~(SubtreePaths(last.node) \subseteq last.before)
    /\ excludedPaths # {}

\* C8: in a built tree every Directory node has a File node below it and no
\* File node's path is matched by a pattern; the tree is null exactly when no
\* file survives, as for X/node_modules/pkg/index.js under node_modules.
C8_TreeShape ==
    /\ \A n \in TreeNodes(tree) :
          /\ n.kind = "directory" => \E m \in Nodes(n) : m.kind = "file"
          /\ n.kind = "file" => ~isExcluded(n.path, treeOf)
    /\ tree = <<>> <=> Survivors(disk, treeOf) = {}
    /\ ( /\ disk = DiskOf({<<NODE_MODULES>>, <<NODE_MODULES, PKG>>,
                           <<NODE_MODULES, PKG, INDEX_JS>>})
         /\ treeOf = << <<NODE_MODULES>> >> ) => tree = <<>>

\* The only file is node_modules/pkg/index.js, the pattern is node_modules,
\* and the build returned null.
C8_Witness ==
    /\ disk = DiskOf({<<NODE_MODULES>>, <<NODE_MODULES, PKG>>,
                      <<NODE_MODULES, PKG, INDEX_JS>>})
    /\ treeOf = << <<NODE_MODULES>> >>
    /\ last.op = "readTree"
    /\ tree = <<>>

----------------------------------------------------------------------------
(* Archive Builder: the walks of createZip and the archive codec *)

\* path.length of a joined path: the names and the "/" between them.
PathLength(path) == SumSeq([i \in 1..Len(path) |-> Len(path[i])]) + Len(path) - 1

\* isExcludedByPattern(path) || isUncheckedManually(path)
skipped(path, patterns, unselected) ==
    isExcludedByPattern(path, patterns) \/ isUncheckedManually(path, unselected)

RECURSIVE countFiles(_, _, _, _)
\* countFiles(dir, relPath), as the loop over the entries of dir that remain.
countFiles(entries, relPath, patterns, unselected) ==
    IF entries = <<>> THEN 0
    ELSE LET entry == Head(entries)
             path == Append(relPath, entry.name)
             rest == countFiles(Tail(entries), relPath, patterns, unselected)
         IN IF skipped(path, patterns, unselected) THEN rest
            ELSE IF entry.kind = "directory"
                 THEN countFiles(entry.entries, path, patterns, unselected) + rest
                 ELSE 1 + rest

RECURSIVE traverse(_, _, _, _)
\* traverse(dir, zipFolder, relPath): the entries it handles, in order.  A
\* directory gives zipFolder.folder(entry.name) and then its own entries, a
\* file gives one read and one zip.file(path, buffer).
traverse(entries, relPath, patterns, unselected) ==
    IF entries = <<>> THEN <<>>
    ELSE LET entry == Head(entries)
             path == Append(relPath, entry.name)
             rest == traverse(Tail(entries), relPath, patterns, unselected)
         IN IF skipped(path, patterns, unselected) THEN rest
            ELSE IF entry.kind = "directory"
                 THEN << [kind |-> "directory", path |-> path, size |-> 0,
                          packed |-> 0, data |-> 0] >>
                          \o traverse(entry.entries, path, patterns, unselected)
                          \o rest
                 ELSE << [kind |-> "file", path |-> path, size |-> entry.size,
                          packed |-> entry.packed, data |-> entry.data] >> \o rest

\* new JSZip(): the file entries by name, and the names of the folder entries.
EmptyZip == [files |-> <<>>, dirs |-> {}]

\* A rendered number: "0", or sign, integer part and one decimal (tenths is
\* the magnitude in tenths, so "-12.5" is negative with tenths = 125).
Rendered(negative, tenths, decimals) ==
    [negative |-> negative, tenths |-> tenths, decimals |-> decimals]

Abs(x) == IF x < 0 THEN 0 - x ELSE x

toFixed1Truncating(num, den, halfUp) ==
    Rendered(num < 0, (Abs(num) * 1000) \div den, 1)

\* ((num / den) * 100).toFixed(1): the tenth nearest to the value; toFixed
\* keeps the sign of a negative value.  When the value lies halfway between
\* two tenths, the rounding error of the double decides the side (halfUp).
toFixed1(num, den, halfUp) ==
    LET m == Abs(num) * 1000
        q == m \div den
        r == m % den
    IN Rendered(num < 0,
                IF 2 * r > den \/ (2 * r = den /\ halfUp) THEN q + 1 ELSE q,
                1)

\* rawSize > 0 ? (((rawSize - zippedSize) / rawSize) * 100).toFixed(1) : '0'
compressionRatio(raw, zipped, halfUp) ==
    IF raw > 0 THEN toFixed1(raw - zipped, raw, halfUp)
    ELSE Rendered(FALSE, 0, 0)

NoMeta == [filesCount |-> 0, rawSize |-> 0, zippedSize |-> 0, md5Hash |-> <<>>,
           compressionRatio |-> Rendered(FALSE, 0, 0)]

\* zip.file(name, data): the entry of that name is set, replacing the one
\* the archive already holds under the name, if any; its date is the time of
\* the call.
zipFile(zip, name, content) ==
    [zip EXCEPT !.files = [q \in (DOMAIN zip.files) \cup {name} |->
                              IF q = name THEN [content |-> content, date |-> now]
                              ELSE zip.files[q]]]

\* zipFolder.folder(name): a folder entry at the path of the directory, dated
\* with the time of the call, unless the archive has one.
zipFolder(zip, path) ==
    IF \E d \in zip.dirs : d.path = path THEN zip
    ELSE [zip EXCEPT !.dirs = @ \cup {[path |-> path, date |-> now]}]

\* The entry zip.file(path, buffer) stores for a file that was read.
fileEntry(ev) ==
    [kind |-> "file", size |-> ev.size, packed |-> ev.packed, data |-> ev.data,
     meta |-> NoMeta]

\* The number of decimal digits of a natural number.
RECURSIVE Digits(_)
Digits(n) == IF n < 10 THEN 1 ELSE 1 + Digits(n \div 10)

\* The length of n.toLocaleString() for a natural number n, in a locale that
\* groups the digits by three with a one-byte separator (as en-US does).
toLocaleStringLength(n) == Digits(n) + (Digits(n) - 1) \div 3

\* The length of formatSize(bytes): '0 B' for zero; otherwise the value in
\* the unit i = floor(log(bytes) / log(1024)), with one decimal (the quotient
\* by a power of two is exact, so a half rounds up), a space and the unit;
\* the logarithm of a negative number is NaN, which gives 'NaN undefined'.
formatSizeLength(bytes) ==
    IF bytes = 0 THEN 3
    ELSE IF bytes < 0 THEN 13
    ELSE LET i == IF bytes < 1024 THEN 0
                  ELSE IF bytes < 1048576 THEN 1
                  ELSE IF bytes < 1073741824 THEN 2 ELSE 3
             unit == IF i = 0 THEN 1
                     ELSE IF i = 1 THEN 1024
                     ELSE IF i = 2 THEN 1048576 ELSE 1073741824
             whole == bytes \div unit
             rest == bytes % unit
             \* the rest in tenths of the unit, a half rounded up (10 carries)
             u == IF i = 0 THEN 1 ELSE unit \div 1024
             tenths == IF i = 0 THEN 0
                       ELSE (20 * (rest \div u) + 1024 + (20 * (rest % u)) \div u)
                                \div 2048
         IN  Digits(IF tenths = 10 THEN whole + 1 ELSE whole) + 3
                 + (IF i = 0 THEN 1 ELSE 2)

\* What the run time adds to a manifest: the side a halfway percentage is
\* rounded to, and the length of createdAt.toLocaleString() (20 to 23
\* characters in en-US, as the month, the day and the hour have one digit or
\* two).
Renderings == { [halfUp |-> h, locale |-> l] : h \in BOOLEAN, l \in 20..23 }

\* The numbers of bytes DEFLATE at level 9 can make of a manifest text: the
\* model does not compute the compression, so a size that depends on it is
\* stated for each of these.
Deflated == 500..620

\* generateMetadataContent(params): the manifest text, here by the values it
\* prints (the dates by their lengths) and its length in UTF-8 (what DEFLATE
\* makes of it is not part of the entry): 1804 bytes of
\* fixed text (two of its characters take three bytes), the two names, the
\* 24 characters of createdAt.toISOString(), the local date, the numbers as
\* they are printed, and the 32 hexadecimal digits of the digest.
generateMetadataContent(params, render) ==
    LET ratio == compressionRatio(params.rawSize, params.zippedSize, render.halfUp)
    IN
    [kind |-> "manifest",
     size |-> 1804 + Len(params.zipFileName) + Len(params.folderName)
                   + 24 + render.locale
                   + toLocaleStringLength(params.filesCount)
                   + formatSizeLength(params.rawSize)
                   + toLocaleStringLength(params.rawSize)
                   + formatSizeLength(params.zippedSize)
                   + toLocaleStringLength(params.zippedSize)
                   + formatSizeLength(params.rawSize - params.zippedSize)
                   + (IF ratio.decimals = 0 THEN 1
                      ELSE (IF ratio.negative THEN 1 ELSE 0)
                           + Digits(ratio.tenths \div 10) + 2)
                   + 32,
     data |-> 0,
     meta |-> [filesCount |-> params.filesCount,
               rawSize |-> params.rawSize,
               zippedSize |-> params.zippedSize,
               md5Hash |-> params.md5Hash,
               compressionRatio |-> ratio]]

RECURSIVE SumOver(_, _)
SumOver(f, S) ==
    IF S = {} THEN 0
    ELSE LET x == CHOOSE x \in S : TRUE IN f[x] + SumOver(f, S \ {x})

\* zip.generateAsync({type: 'blob', compression: 'DEFLATE', level 9}): the
\* content of the archive and the size of the blob.  A ZIP holds per entry a
\* local header (30 bytes + name), the packed data and a central directory
\* record (46 bytes + name), and one end record of 22 bytes; a folder entry
\* has the name with a trailing "/" and no data.  Both headers of an entry
\* hold its date.  The size is kept as the bytes that do not depend on the
\* compression of a manifest text (plain) and the number of manifest texts
\* in the archive (texts).
generateAsync(zip) ==
    LET manifests == { q \in DOMAIN zip.files : zip.files[q].content.kind = "manifest" }
    IN
    [files |-> zip.files,
     dirs |-> zip.dirs,
     plain |-> 22
              + SumOver([q \in DOMAIN zip.files |->
                            76 + 2 * PathLength(q)
                            + (IF q \in manifests THEN 0
                               ELSE zip.files[q].content.packed)],
                        DOMAIN zip.files)
              + SumOver([d \in zip.dirs |-> 76 + 2 * (PathLength(d.path) + 1)],
                        zip.dirs),
     texts |-> Cardinality(manifests)]

\* blob.size, given the bytes DEFLATE made of each manifest text of the blob
\* (none for the provisional blob, which is generated before the manifest).
blobSize(blob, deflated) == blob.plain + SumSeq(deflated)

\* computeMD5FromBlob(blob): a digest of the bytes of the blob, which are the
\* entries and their content.
computeMD5FromBlob(blob) == << [files |-> blob.files, dirs |-> blob.dirs] >>

\* The characters of the names a user types.
SPACE == " "

\* String.prototype.trim(), for the blanks of the model.
RECURSIVE trim(_)
trim(name) ==
    IF name = <<>> THEN name
    ELSE IF Head(name) = SPACE THEN trim(Tail(name))
    ELSE IF name[Len(name)] = SPACE THEN trim(SubSeq(name, 1, Len(name) - 1))
    ELSE name

\* One createZip invocation: the values its closures hold from the render of
\* the click (handle, patterns, unselected), the preview of that render
\* (shown*, history), its position (pc), its locals, and the kinds of the
\* toasts it has shown (history).
NewBuild ==
    [pc |-> "import",
     handle |-> directoryHandle,
     finalFileName |-> IF trim(zipFileName) # <<>> THEN trim(zipFileName) ELSE disk.name,
     patterns |-> excludePatterns,
     unselected |-> unselectedPaths,
     shownFiles |-> IF tree # <<>> THEN countedFiles(tree[1], excludedPaths) ELSE {},
     shownCount |-> fileCount,
     shownSize |-> rawSize,
     next |-> 1,
     filesAdded |-> 0,
     totalSizeAdded |-> 0,
     added |-> <<>>,
     zip |-> EmptyZip,
     contentBlob |-> <<>>,
     finalBlob |-> <<>>,
     failedAt |-> "none",
     toasts |-> <<>>]

\* A walk that evaluates the patterns and the unselected paths of the page
\* at the time of each step.
walkLive(b) == traverse(disk.entries, <<>>, excludePatterns, unselectedPaths)

\* The entries traverse(directoryHandle, zip) handles for build b.
walk(b) == traverse(disk.entries, <<>>, b.patterns, b.unselected)

addFileCountOnly(b, ev) ==
    [b EXCEPT !.zip = zipFile(@, ev.path, fileEntry(ev)),
              !.filesAdded = @ + 1,
              !.added = Append(@, ev.path),
              !.next = @ + 1]

\* The file branch of traverse: zip.file(path, buffer); filesAdded++;
\* totalSizeAdded += file.size
addFile(b, ev) ==
    [b EXCEPT !.zip = zipFile(@, ev.path, fileEntry(ev)),
              !.filesAdded = @ + 1,
              !.totalSizeAdded = @ + ev.size,
              !.added = Append(@, ev.path),
              !.next = @ + 1]

\* The directory branch of traverse: zipFolder.folder(entry.name)
addFolder(b, ev) ==
    [b EXCEPT !.zip = zipFolder(@, ev.path), !.next = @ + 1]

\* setProgress(prev => prev ? { ...prev, current: filesAdded } : null)
advance(prev, filesAdded) ==
    IF prev # <<>> THEN << [prev[1] EXCEPT !.current = filesAdded] >> ELSE <<>>

finallyKeepsProgress(prev) == [isZipping |-> FALSE, progress |-> prev]

\* finally { setIsZipping(false); setProgress(null) }
finally(prev) == [isZipping |-> FALSE, progress |-> <<>>]

\* A manifest whose digest is taken once a manifest entry is in the archive.
manifestOfLateDigest(b, render) ==
    generateMetadataContent(
        [folderName |-> disk.name,
         zipFileName |-> b.finalFileName \o <<".", "z", "i", "p">>,
         filesCount |-> b.filesAdded,
         rawSize |-> b.totalSizeAdded,
         zippedSize |-> blobSize(b.contentBlob[1], <<>>),
         md5Hash |-> computeMD5FromBlob(generateAsync(
                         zipFile(b.zip, <<MANIFEST>>,
                                 generateMetadataContent(
                                     NoMeta @@ [folderName |-> disk.name,
                                                zipFileName |-> disk.name],
                                     render))))],
        render)

\* The manifest createZip adds once the provisional blob and its digest
\* exist; the archive is named after the folder (finalFileName with no name
\* typed).
manifestOf(b, render) ==
    generateMetadataContent([folderName |-> disk.name,
                             zipFileName |-> b.finalFileName \o <<".", "z", "i", "p">>,
                             filesCount |-> b.filesAdded,
                             rawSize |-> b.totalSizeAdded,
                             zippedSize |-> blobSize(b.contentBlob[1], <<>>),
                             md5Hash |-> computeMD5FromBlob(b.contentBlob[1])],
                            render)

\* A record that reports the size of the archive as delivered.
completionOfFinal(i, b) ==
    [build |-> i, filesCount |-> b.filesAdded, rawSizeBytes |-> b.totalSizeAdded,
     zippedSizeBytes |-> blobSize(generateAsync(b.zip), << CHOOSE d \in Deflated : TRUE >>)]

\* The record createZip hands to recordZipCreation and to recordGlobalEvent.
completion(i, b) ==
    [build |-> i, filesCount |-> b.filesAdded, rawSizeBytes |-> b.totalSizeAdded,
     zippedSizeBytes |-> blobSize(b.contentBlob[1], <<>>)]

\* recordEvent(data) up to its fetch: nothing when the sink is not configured.
recordEvent(data) ==
    IF ~isEnabled THEN posts
    ELSE Append(posts, [body |-> data, state |-> "sent", outcome |-> "none"])

Remove(s, k) == [j \in 1..(Len(s) - 1) |-> IF j < k THEN s[j] ELSE s[j + 1]]

----------------------------------------------------------------------------
(* Spec: a session of the page.  The folder content is fixed; the user picks *)
(* the folder, edits the patterns, toggles nodes and builds, while scans     *)
(* and builds proceed one await at a time.                                   *)

\* The patterns a session types or finds stored: one that needs the "**/"
\* prefix and the name of the picked folder.
SessionPatterns == { LogPattern, <<ROOT>> }

StoredPatternLists == { l \in PatternLists : Range(l) \subseteq SessionPatterns }

Init ==
    /\ disk \in SessionDisks
    /\ excludePatterns \in StoredPatternLists
    /\ directoryHandle = 0
    /\ unselectedPaths = {}
    /\ rawSize = 0
    /\ fileCount = 0
    /\ isZipping = FALSE
    /\ progress = <<>>
    /\ tree = <<>>
    /\ treeOf = excludePatterns
    /\ excludedPaths = {}
    /\ isLoading = FALSE
    /\ scans = <<>>
    /\ builds = <<>>
    /\ downloads = <<>>
    /\ localRecords = <<>>
    /\ remoteRecords = <<>>
    /\ last = NoOp
    /\ used = 0
    /\ budget = [actions |-> MaxActions, builds |-> MaxBuilds]
    /\ store = << JSONstringify(excludePatterns) >>
    /\ isEnabled \in BOOLEAN
    /\ posts = <<>>
    /\ probe = NoProbe
    /\ now = 0
    /\ picking = 0
    /\ isOpen = FALSE
    /\ zipFileName = (IF directoryHandle = 0 THEN <<>> ELSE disk.name)

\* The scan effect of the preview, which runs when root or matchers changed.
ScanEffect(root, patterns) ==
    IF root = 0
    THEN /\ tree' = <<>>
         /\ UNCHANGED << isLoading, scans >>
    ELSE /\ isLoading' = TRUE
         /\ scans' = Append(scans, [root |-> root, patterns |-> patterns])
         /\ UNCHANGED tree

\* handleFolderSelected, reached from the picker and from a drop.
SelectFolder ==
    /\ picking > 0
    /\ used < budget.actions
    /\ picking' = picking - 1
    /\ directoryHandle' = used + 1
    /\ zipFileName' = disk.name
    /\ unselectedPaths' = {}
    /\ ScanEffect(directoryHandle', excludePatterns)
    /\ used' = used + 1
    /\ UNCHANGED << env, isOpen, excludePatterns, store, rawSize, fileCount, isZipping,
                    progress, treeOf, excludedPaths, buildVars, last >>

\* What a step that only opens or closes the picker or the menu leaves alone.
pageUnchanged ==
    UNCHANGED << env, zipFileName, excludePatterns, store, directoryHandle, unselectedPaths, rawSize,
                 fileCount, isZipping, progress, tree, treeOf, excludedPaths, isLoading,
                 scans, buildVars, last, used >>

\* A click on the drop zone or a drop on it, neither taken while a build is
\* zipping (isDisabled): selectFolder awaits showDirectoryPicker(), handleDrop
\* awaits getAsFileSystemHandle().  Neither looks at the requests that are
\* pending.
OpenPicker ==
    /\ ~isZipping
    /\ picking < MaxPending
    /\ picking' = picking + 1
    /\ UNCHANGED isOpen
    /\ pageUnchanged

\* A picker is dismissed, or what was dropped is no folder: a warning
\* toast or a drag error, and no other change.
PickerDismissed ==
    /\ picking > 0
    /\ picking' = picking - 1
    /\ UNCHANGED isOpen
    /\ pageUnchanged

\* A resetViewState that also abandons the builds in flight (what the code
\* does not do: createZip holds no reference that a reset could cancel).
ResetViewStateAbortsBuilds ==
    /\ directoryHandle # 0
    /\ ~isZipping
    /\ used < budget.actions
    /\ directoryHandle' = 0
    /\ progress' = <<>>
    /\ UNCHANGED excludedPaths
    /\ ScanEffect(0, excludePatterns)
    /\ IF tree' # tree THEN ReportEffect
       ELSE unselectedPaths' = {} /\ rawSize' = 0 /\ fileCount' = 0
    /\ zipFileName' = <<>>
    /\ used' = used + 1
    /\ builds' = [i \in 1..Len(builds) |->
                     IF builds[i].pc \in {"done", "failed"} THEN builds[i]
                     ELSE [builds[i] EXCEPT !.pc = "failed"]]
    /\ UNCHANGED << env, picking, isOpen, excludePatterns, store, isZipping, treeOf,
                    downloads, localRecords, remoteRecords, posts, last >>

\* resetViewState; the preview then drops its tree, and if it had one it
\* reports its excluded paths with zero totals.
ResetViewState ==
    /\ directoryHandle # 0
    /\ ~isZipping
    /\ used < budget.actions
    /\ directoryHandle' = 0
    /\ progress' = <<>>
    /\ UNCHANGED excludedPaths
    /\ ScanEffect(0, excludePatterns)
    /\ IF tree' # tree THEN ReportEffect
       ELSE unselectedPaths' = {} /\ rawSize' = 0 /\ fileCount' = 0
    /\ zipFileName' = <<>>
    /\ used' = used + 1
    /\ UNCHANGED << env, picking, isOpen, excludePatterns, store, isZipping, treeOf,
                    buildVars, last >>

\* The Output Filename input (shown with a folder, disabled while a build is
\* zipping): onChange sets the text.  A user empties it, types a blank, or
\* types a name.
setZipFileName ==
    \E text \in { <<>>, << SPACE >>, << "r", "e", "l", SPACE >> } :
        /\ directoryHandle # 0
        /\ ~isZipping
        /\ used < budget.actions
        /\ text # zipFileName
        /\ zipFileName' = text
        /\ used' = used + 1
        /\ UNCHANGED << env, picking, isOpen, excludePatterns, store, directoryHandle,
                        unselectedPaths, rawSize, fileCount, isZipping, progress, tree,
                        treeOf, excludedPaths, isLoading, scans, buildVars, last >>

\* setExcludePatterns(next): the matchers change, so the preview scans again
\* (or, with no folder, drops the tree it holds and reports that).
PatternsChange(next) ==
    /\ Mounted
    /\ used < budget.actions
    /\ excludePatterns' = next
    /\ store' = saveEffect([patterns |-> next, store |-> store, queue |-> <<>>]).store
    /\ UNCHANGED excludedPaths
    /\ ScanEffect(directoryHandle, next)
    /\ IF tree' # tree THEN ReportEffect
       ELSE UNCHANGED << unselectedPaths, rawSize, fileCount >>
    /\ used' = used + 1
    /\ UNCHANGED << env, picking, zipFileName, directoryHandle, isZipping, progress,
                    treeOf, buildVars, last >>

handleAddPattern ==
    \E p \in SessionPatterns :
        /\ ~isZipping
        /\ p \notin Range(excludePatterns)
        /\ Len(excludePatterns) < MaxPatterns
        /\ PatternsChange(Append(excludePatterns, p))
        /\ UNCHANGED isOpen

handleRemovePattern ==
    \E index \in 1..Len(excludePatterns) :
        /\ PatternsChange(Remove(excludePatterns, index))
        /\ UNCHANGED isOpen

handleClearAllPatterns ==
    /\ Len(excludePatterns) > 1
    /\ PatternsChange(<<>>)
    /\ UNCHANGED isOpen

\* [...new Set(excludePatterns) with each p of patterns added]
applyPreset(existing, patterns) ==
    LET IsNew(q) == q \notin Range(existing)
    IN existing \o SelectSeq(patterns, IsNew)

\* The preset the model offers: node_modules and *.log, two of the patterns
\* of the "my-defaults" preset.
Presets == { << <<NODE_MODULES>>, LogPattern >> }

\* The Presets button (disabled while a build is zipping) opens the menu
\* and closes it.
TogglePresets ==
    /\ Mounted
    /\ ~isZipping
    /\ isOpen' = ~isOpen
    /\ UNCHANGED picking
    /\ pageUnchanged

\* A mouse press outside the menu, or the Escape key.
ClosePresets ==
    /\ isOpen
    /\ isOpen' = FALSE
    /\ UNCHANGED picking
    /\ pageUnchanged

\* Quick apply, or Add Selected Patterns, in the open menu: both are offered
\* when the preset has a pattern the list has not, and both close the menu.
handleApplyPresetPatterns ==
    \E patterns \in Presets :
        /\ isOpen
        /\ \E i \in 1..Len(patterns) : patterns[i] \notin Range(excludePatterns)
        /\ PatternsChange(applyPreset(excludePatterns, patterns))
        /\ isOpen' = FALSE

\* The tree is on screen, with its checkboxes and its two buttons.
TreeShown == ~isLoading /\ directoryHandle # 0 /\ tree # <<>>

Selection(next, op) ==
    /\ TreeShown
    /\ used < budget.actions
    /\ excludedPaths' = next
    /\ last' = op
    /\ UNCHANGED tree
    /\ ReportEffect
    /\ used' = used + 1
    /\ UNCHANGED << fixed, excludePatterns, store, pageVars, treeOf, isLoading, scans,
                    buildVars >>

Toggle ==
    \E node \in TreeNodes(tree) :
        Selection(toggleCheckbox(excludedPaths, node), ToggleOp(node))

SelectAll ==
    /\ tree # <<>>
    /\ Selection(selectAll, [NoOp EXCEPT !.op = "selectAll", !.before = excludedPaths])

DeselectAll ==
    /\ tree # <<>>
    /\ Selection(deselectAll(tree),
                 [NoOp EXCEPT !.op = "deselectAll", !.before = excludedPaths])

\* readTree(root) resolves: the then-branch of the scan effect.
ScanDone ==
    \E k \in 1..Len(scans) :
        /\ tree' = readTree(disk, scans[k].patterns)
        /\ treeOf' = scans[k].patterns
        /\ last' = BuiltOp(disk, scans[k].patterns)
        /\ isLoading' = FALSE
        /\ scans' = Remove(scans, k)
        /\ UNCHANGED excludedPaths
        /\ IF tree' # <<>> \/ tree # <<>> THEN ReportEffect
           ELSE UNCHANGED << unselectedPaths, rawSize, fileCount >>
        /\ UNCHANGED << fixed, excludePatterns, store, pageVars, buildVars, used >>

\* readTree(root) rejects: the catch-branch of the scan effect.
ScanFail ==
    \E k \in 1..Len(scans) :
        /\ isLoading' = FALSE
        /\ scans' = Remove(scans, k)
        /\ UNCHANGED << fixed, excludePatterns, store, pageVars, unselectedPaths, rawSize,
                        fileCount, tree, treeOf, excludedPaths, buildVars, last, used >>

canCreateZip == directoryHandle # 0 /\ fileCount > 0 /\ ~isZipping

buildUnchanged ==
    UNCHANGED << fixed, excludePatterns, store, directoryHandle, unselectedPaths, rawSize,
                 fileCount, tree, treeOf, excludedPaths, isLoading, scans, last, used >>

\* The click on Create ZIP: createZip runs up to await import('jszip').
CreateZip ==
    /\ canCreateZip
    /\ Len(builds) < budget.builds
    /\ builds' = Append(builds, NewBuild)
    /\ UNCHANGED << isZipping, progress, downloads, localRecords, remoteRecords, posts >>
    /\ buildUnchanged

\* The import rejects: createZip ends before its try block. Every createZip
\* awaits the same module, import('jszip'), and the page requests it once:
\* when the request has failed every pending and every later import of it
\* rejects, each call in a step of its own (other handlers run in between),
\* and once the module was loaded for one createZip no import of it rejects.
BuildImportFail ==
    \E i \in 1..Len(builds) :
        /\ builds[i].pc = "import"
        /\ \A j \in 1..Len(builds) :
              builds[j].pc = "import" \/ builds[j].failedAt = "import"
        /\ builds' = [builds EXCEPT ![i].pc = "failed", ![i].failedAt = "import"]
        /\ UNCHANGED << isZipping, progress, downloads, localRecords, remoteRecords, posts >>
        /\ buildUnchanged

\* The import resolves (the request for the module has not failed):
\* setIsZipping(true), and countFiles starts.
BuildBegin ==
    \E i \in 1..Len(builds) :
        /\ builds[i].pc = "import"
        /\ \A j \in 1..Len(builds) : builds[j].failedAt # "import"
        /\ builds' = [builds EXCEPT ![i].pc = "count",
                                    ![i].toasts = Append(@, "info")]
        /\ isZipping' = TRUE
        /\ UNCHANGED << progress, downloads, localRecords, remoteRecords, posts >>
        /\ buildUnchanged

\* countFiles resolves: setProgress({ current: 0, total: totalFiles })
BuildCounted ==
    \E i \in 1..Len(builds) :
        /\ builds[i].pc = "count"
        /\ builds' = [builds EXCEPT ![i].pc = "collect",
                                    ![i].toasts = Append(@, "info")]
        /\ progress' = << [current |-> 0,
                           total |-> countFiles(disk.entries, <<>>, builds[i].patterns,
                                                builds[i].unselected)] >>
        /\ UNCHANGED << isZipping, downloads, localRecords, remoteRecords, posts >>
        /\ buildUnchanged

\* traverse handles its next entry.
BuildCollect ==
    \E i \in 1..Len(builds) :
        LET b == builds[i] IN
        /\ b.pc = "collect"
        /\ b.next <= Len(walk(b))
        /\ LET ev == walk(b)[b.next] IN
           IF ev.kind = "directory"
           THEN /\ builds' = [builds EXCEPT ![i] = addFolder(b, ev)]
                /\ UNCHANGED progress
           ELSE /\ builds' = [builds EXCEPT ![i] = addFile(b, ev)]
                /\ progress' = advance(progress, builds'[i].filesAdded)
        /\ UNCHANGED << isZipping, downloads, localRecords, remoteRecords, posts >>
        /\ buildUnchanged

\* traverse is through: the first generateAsync starts.
BuildCollected ==
    \E i \in 1..Len(builds) :
        LET b == builds[i] IN
        /\ b.pc = "collect"
        /\ b.next > Len(walk(b))
        /\ builds' = [builds EXCEPT ![i].pc = "compress",
                                    ![i].toasts = Append(@, "info")]
        /\ UNCHANGED << isZipping, progress, downloads, localRecords, remoteRecords, posts >>
        /\ buildUnchanged

\* The provisional blob resolves: the digest starts.
BuildCompress ==
    \E i \in 1..Len(builds) :
        LET b == builds[i] IN
        /\ b.pc = "compress"
        /\ builds' = [builds EXCEPT ![i].pc = "digest",
                                    ![i].contentBlob = << generateAsync(b.zip) >>,
                                    ![i].toasts = Append(@, "info")]
        /\ UNCHANGED << isZipping, progress, downloads, localRecords, remoteRecords, posts >>
        /\ buildUnchanged

\* The digest resolves: the manifest is written and added to the archive.
BuildDigest ==
    \E i \in 1..Len(builds), render \in Renderings :
        LET b == builds[i] IN
        /\ b.pc = "digest"
        /\ builds' = [builds EXCEPT ![i].pc = "finalize",
                                    ![i].zip = zipFile(@, <<MANIFEST>>,
                                                       manifestOf(b, render)),
                                    ![i].toasts = Append(@, "info")]
        /\ UNCHANGED << isZipping, progress, downloads, localRecords, remoteRecords, posts >>
        /\ buildUnchanged

\* The final blob resolves: download, the two completion records (the remote
\* one is not awaited), the success toast and the finally block.
BuildFinal ==
    \E i \in 1..Len(builds) :
        LET b == builds[i] IN
        /\ b.pc = "finalize"
        /\ builds' = [builds EXCEPT ![i].pc = "done",
                                    ![i].finalBlob = << generateAsync(b.zip) >>,
                                    ![i].toasts = Append(@, "success")]
        /\ downloads' = Append(downloads,
                               [build |-> i, blob |-> generateAsync(b.zip),
                                download |-> b.finalFileName \o <<".", "z", "i", "p">>])
        /\ localRecords' = Append(localRecords, completion(i, b))
        /\ remoteRecords' = Append(remoteRecords, completion(i, b))
        /\ posts' = recordEvent(completion(i, b))
        /\ isZipping' = finally(progress).isZipping
        /\ progress' = finally(progress).progress
        /\ buildUnchanged

\* An await inside the try block rejects (a directory or file read, either
\* generateAsync, the digest): catch, then the finally block.
BuildFail ==
    \E i \in 1..Len(builds) :
        LET b == builds[i] IN
        /\ b.pc \in {"count", "collect", "compress", "digest", "finalize"}
        /\ builds' = [builds EXCEPT ![i].pc = "failed", ![i].failedAt = b.pc,
                                    ![i].toasts = Append(@, "error")]
        /\ isZipping' = finally(progress).isZipping
        /\ progress' = finally(progress).progress
        /\ UNCHANGED << downloads, localRecords, remoteRecords, posts >>
        /\ buildUnchanged

\* A recordEvent that lets the rejection of its fetch through.
settledUncaught(outcome) ==
    IF outcome = "ok" THEN "true"
    ELSE IF outcome = "notOk" THEN "false" ELSE "rejected"

\* How the promise of recordEvent settles: res.ok gives true, another status
\* gives false, and a rejected fetch is caught and gives false.
settled(outcome) == IF outcome = "ok" THEN "true" ELSE "false"

\* The fetch of recordEvent resolves with an OK status or another one, or it
\* rejects; nobody awaits what recordEvent returns.
PostAnswered ==
    \E k \in 1..Len(posts), outcome \in {"ok", "notOk", "threw"} :
        /\ posts[k].state = "sent"
        /\ posts' = [posts EXCEPT ![k].state = settled(outcome),
                                  ![k].outcome = outcome]
        /\ UNCHANGED << builds, isZipping, progress, downloads, localRecords,
                        remoteRecords >>
        /\ buildUnchanged

Next ==
    \/ OpenPicker
    \/ PickerDismissed
    \/ SelectFolder
    \/ setZipFileName
    \/ TogglePresets
    \/ ClosePresets
    \/ ResetViewState
    \/ handleAddPattern
    \/ handleRemovePattern
    \/ handleClearAllPatterns
    \/ handleApplyPresetPatterns
    \/ Toggle
    \/ SelectAll
    \/ DeselectAll
    \/ ScanDone
    \/ ScanFail
    \/ CreateZip
    \/ BuildImportFail
    \/ BuildBegin
    \/ BuildCounted
    \/ BuildCollect
    \/ BuildCollected
    \/ BuildCompress
    \/ BuildDigest
    \/ BuildFinal
    \/ BuildFail
    \/ PostAnswered

Spec == Init /\ [][Next]_vars

----------------------------------------------------------------------------
(* Properties of the builds (Spec) *)

\* The files of the folder the walk of build b must add: those that are not
\* skipped and lie under no skipped directory.
BuildSurvivors(b) ==
    { f \in DiskFiles(disk) :
        \A k \in 1..Len(f) : ~skipped(SubSeq(f, 1, k), b.patterns, b.unselected) }

\* The builds whose walk is through.
Collected ==
    { i \in 1..Len(builds) : builds[i].pc \in {"compress", "digest", "finalize", "done"} }

Done == { i \in 1..Len(builds) : builds[i].pc = "done" }

\* C1: the files a build adds are the File nodes the preview counted when the
\* build was started, and filesAdded and the raw bytes of the build are the
\* file count and the raw size shown then.
C1_PreviewIsBuild ==
    \A i \in Collected :
        /\ Range(builds[i].added) = builds[i].shownFiles
        /\ builds[i].filesAdded = builds[i].shownCount
        /\ builds[i].totalSizeAdded = builds[i].shownSize

\* C3: the archive a successful build delivers holds, for every surviving
\* file, an entry at the file's path with the file's bytes, and one manifest
\* entry at _ZIPDROP_MANIFEST.txt: filesAdded + 1 file entries.
C3_ArchiveIsSurvivorsPlusManifest ==
    \A i \in Done :
        LET delivered == builds[i].finalBlob[1].files IN
        /\ \A f \in BuildSurvivors(builds[i]) :
              /\ f \in DOMAIN delivered
              /\ delivered[f].content.kind = "file"
              /\ delivered[f].content.data = Lookup(disk, f).data
        /\ <<MANIFEST>> \in DOMAIN delivered
        /\ delivered[<<MANIFEST>>].content.kind = "manifest"
        /\ Cardinality(DOMAIN delivered) = builds[i].filesAdded + 1

\* The failures the try block of createZip catches.
Caught == {"count", "collect", "compress", "digest", "finalize"}

\* C4: a build that fails in a directory or file read, in either codec run or
\* in the digest triggers no download and sends no completion record, neither
\* then nor later, and the step that fails leaves isZipping false and
\* progress null.
C4_FailureAllOrNothing ==
    /\ [](\A i \in 1..Len(builds) :
             builds[i].pc = "failed" =>
                 /\ \A k \in 1..Len(downloads) : downloads[k].build # i
                 /\ \A k \in 1..Len(localRecords) : localRecords[k].build # i
                 /\ \A k \in 1..Len(remoteRecords) : remoteRecords[k].build # i)
    /\ [][\A i \in 1..Len(builds) :
             (builds[i].pc \in Caught /\ builds'[i].pc = "failed") =>
                 /\ isZipping' = FALSE
                 /\ progress' = <<>>
                 /\ UNCHANGED << downloads, localRecords, remoteRecords, posts >>]_vars

C4_Witness ==
    \E i \in 1..Len(builds) :
        /\ builds[i].pc = "failed"
        /\ builds[i].failedAt = "collect"
        /\ builds[i].filesAdded >= 1
        /\ ~isZipping
        /\ progress = <<>>
        /\ downloads = <<>>

RECURSIVE SizesOf(_)
\* The byte lengths of the files at the paths of a list, summed.
SizesOf(paths) ==
    IF paths = <<>> THEN 0
    ELSE Lookup(disk, Head(paths)).size + SizesOf(Tail(paths))

\* C9: for a successful build, the files read and added are the surviving
\* files, each once; filesAdded is their number and totalSizeAdded the sum of
\* their byte lengths (0 and 0 when no file survives), and these are the
\* numbers of the completion records.
C9_CountersAreSums ==
    \A i \in Done :
        LET b == builds[i] IN
        /\ Range(b.added) = BuildSurvivors(b)
        /\ NoDuplicates(b.added)
        /\ b.filesAdded = Len(b.added)
        /\ b.totalSizeAdded = SizesOf(b.added)
        /\ BuildSurvivors(b) = {} => b.filesAdded = 0 /\ b.totalSizeAdded = 0
        /\ \A k \in 1..Len(localRecords) :
              localRecords[k].build = i =>
                  /\ localRecords[k].filesCount = Len(b.added)
                  /\ localRecords[k].rawSizeBytes = SizesOf(b.added)

C9_Witness ==
    \E i \in Done :
        /\ builds[i].filesAdded = 2
        /\ builds[i].totalSizeAdded = 30
        /\ \E k \in 1..Len(localRecords) :
              localRecords[k].build = i /\ localRecords[k].rawSizeBytes = 30

\* C10: for a successful build, the provisional blob is strictly smaller than
\* the blob that is delivered.
C10_ProvisionalSmaller ==
    \A i \in Done : \A d \in Deflated :
        blobSize(builds[i].contentBlob[1], <<>>)
            < blobSize(builds[i].finalBlob[1], << d >>)

\* The positions of createZip, in the order of its awaits.
PhaseOrder ==
    << "import", "count", "collect", "compress", "digest", "finalize", "done" >>

PhaseIndex(pc) == CHOOSE k \in 1..Len(PhaseOrder) : PhaseOrder[k] = pc

\* The entries traverse has stored for the files build b has added so far.
CollectedEntries(b) ==
    [f \in Range(b.added) |->
        [kind |-> "file", size |-> Lookup(disk, f).size,
         packed |-> Lookup(disk, f).packed, data |-> Lookup(disk, f).data,
         meta |-> NoMeta]]

\* C11: a build moves through count, collect, provisional blob, digest and
\* manifest, final blob and download in that order, one step at a time; the
\* provisional blob holds exactly the collected file entries and no manifest,
\* nothing is added to the archive between the provisional blob and the
\* digest, the manifest carries the digest of the provisional blob, and the
\* download is the final blob.
C11_PhaseOrder ==
    /\ [](\A i \in 1..Len(builds) :
             LET b == builds[i] IN
             /\ b.pc \in {"import", "count"} => b.added = <<>> /\ b.zip = EmptyZip
             /\ b.pc \in {"import", "count", "collect", "compress"} =>
                   b.contentBlob = <<>>
             /\ b.pc = "compress" => b.next > Len(walk(b))
             /\ b.pc \in {"digest", "finalize", "done"} =>
                   /\ b.next > Len(walk(b))
                   /\ [f \in DOMAIN b.contentBlob[1].files |->
                          b.contentBlob[1].files[f].content] = CollectedEntries(b)
                   /\ \A f \in DOMAIN b.contentBlob[1].files :
                         b.contentBlob[1].files[f].content.kind # "manifest"
             /\ b.pc = "digest" => b.zip.files = b.contentBlob[1].files
                                   /\ b.zip.dirs = b.contentBlob[1].dirs
             /\ b.pc \in {"finalize", "done"} =>
                   /\ b.zip.files[<<MANIFEST>>].content.kind = "manifest"
                   /\ b.zip.files[<<MANIFEST>>].content.meta.md5Hash
                          = computeMD5FromBlob(b.contentBlob[1])
             /\ b.pc # "done" => b.finalBlob = <<>>
                                 /\ \A k \in 1..Len(downloads) : downloads[k].build # i
             /\ b.pc = "done" =>
                   /\ b.finalBlob[1].files = b.zip.files
                   /\ \E k \in 1..Len(downloads) :
                         downloads[k].build = i /\ downloads[k].blob = b.finalBlob[1])
    /\ [][\A i \in 1..Len(builds) :
             (builds'[i].pc # builds[i].pc /\ builds'[i].pc # "failed") =>
                 PhaseIndex(builds'[i].pc) = PhaseIndex(builds[i].pc) + 1]_vars

C11_Witness ==
    \E i \in Done :
        /\ builds[i].filesAdded = 2
        /\ builds[i].zip.dirs = {}
        /\ Len(downloads) = 1
        /\ Cardinality(DOMAIN builds[i].finalBlob[1].files) = 3

----------------------------------------------------------------------------
(* SpecManifest: the manifest of a build as a function of the build's      *)
(* counters and its provisional blob.                                      *)

MaxRaw == 6     \* the raw and packed totals 0..MaxRaw, besides the picked ones


\* Every variable of the page, the preview and the builds before any use.
Idle ==
    /\ disk = Dir(ROOT, <<>>)
    /\ excludePatterns = <<>>
    /\ directoryHandle = 0
    /\ unselectedPaths = {}
    /\ rawSize = 0
    /\ fileCount = 0
    /\ isZipping = FALSE
    /\ progress = <<>>
    /\ tree = <<>>
    /\ treeOf = <<>>
    /\ excludedPaths = {}
    /\ isLoading = FALSE
    /\ scans = <<>>
    /\ builds = <<>>
    /\ downloads = <<>>
    /\ localRecords = <<>>
    /\ remoteRecords = <<>>
    /\ last = NoOp
    /\ used = 0
    /\ budget = [actions |-> 0, builds |-> 0]
    /\ store = <<>>
    /\ isEnabled = FALSE
    /\ posts = <<>>
    /\ now = 0
    /\ picking = 0
    /\ isOpen = FALSE
    /\ zipFileName = (IF directoryHandle = 0 THEN <<>> ELSE disk.name)

sessionVars ==
    << disk, excludePatterns, directoryHandle, unselectedPaths, rawSize, fileCount,
       isZipping, progress, tree, treeOf, excludedPaths, isLoading, scans, builds,
       downloads, localRecords, remoteRecords, last, used, budget, store,
       isEnabled, posts, now, picking, isOpen, zipFileName >>

\* A build that has its provisional blob: the locals the manifest is made of.
ManifestInit ==
    /\ Idle
    /\ \E raw \in 0..MaxRaw \cup {300, 2000}, c \in 0..MaxRaw \cup {210, 1997}, n \in 0..1,
          name \in { disk.name, << "r", "e", "l" >> } :
          probe = [fn |-> "manifestOf",
                   in |-> [finalFileName |-> name,
                           filesAdded |-> n, totalSizeAdded |-> raw,
                           contentBlob |-> << [files |-> <<>>, dirs |-> {},
                                               plain |-> c, texts |-> 0] >>],
                   out |-> <<>>]

\* createZip from the digest to the manifest text.
ManifestRender ==
    \E render \in Renderings :
        /\ probe.fn = "manifestOf"
        /\ probe.out = <<>>
        /\ probe' = [probe EXCEPT !.out =
               << manifestOf(probe.in, render) >>]
        /\ UNCHANGED sessionVars

SpecManifest == ManifestInit /\ [][ManifestRender]_vars

\* C12: the percentage the manifest prints is "0" when no raw byte was added;
\* otherwise it has one decimal and is the tenth nearest to
\* (rawBytes - c) / rawBytes * 100, c being the size of the provisional blob:
\* 300 raw bytes and c = 210 give 30.0.
C12_ManifestPercentage ==
    (probe.fn = "manifestOf" /\ probe.out # <<>>) =>
        LET raw == probe.in.totalSizeAdded
            c == blobSize(probe.in.contentBlob[1], <<>>)
            shown == probe.out[1].meta.compressionRatio
        IN /\ probe.out[1].meta.zippedSize = c
           /\ raw = 0 => shown = Rendered(FALSE, 0, 0)
           /\ raw > 0 =>
                 /\ shown.decimals = 1
                 /\ shown.negative = (c > raw)
                 /\ 2 * Abs(shown.tenths * raw - 1000 * Abs(raw - c)) <= raw
           /\ (raw = 300 /\ c = 210) => shown = Rendered(FALSE, 300, 1)

C12_Witness ==
    /\ probe.fn = "manifestOf"
    /\ probe.out # <<>>
    /\ probe.in.totalSizeAdded = 300
    /\ blobSize(probe.in.contentBlob[1], <<>>) = 210
    /\ probe.out[1].meta.compressionRatio.tenths = 300

----------------------------------------------------------------------------
(* Completion records and the remote sink (Spec) *)

\* The items of a list that come from build i.
Of(list, i) == { k \in 1..Len(list) : list[k].build = i }

PostsOf(i) == { k \in 1..Len(posts) : posts[k].body.build = i }

\* C13: a build that has succeeded has given exactly one record to the local
\* statistics and exactly one to the remote sink (one POST when the sink is
\* configured), both with filesAdded, the raw bytes added and the size of the
\* provisional blob, and its final blob and download exist; a build that has
\* not succeeded, a failed one included, has given none.
C13_OneRecordPerSuccess ==
    \A i \in 1..Len(builds) :
        LET b == builds[i]
            record == [build |-> i, filesCount |-> b.filesAdded,
                       rawSizeBytes |-> b.totalSizeAdded,
                       zippedSizeBytes |-> blobSize(b.contentBlob[1], <<>>)]
        IN /\ b.pc = "done" =>
                 /\ Cardinality(Of(localRecords, i)) = 1
                 /\ Cardinality(Of(remoteRecords, i)) = 1
                 /\ \A k \in Of(localRecords, i) : localRecords[k] = record
                 /\ \A k \in Of(remoteRecords, i) : remoteRecords[k] = record
                 /\ Cardinality(PostsOf(i)) = (IF isEnabled THEN 1 ELSE 0)
                 /\ \A k \in PostsOf(i) : posts[k].body = record
                 /\ b.finalBlob # <<>>
                 /\ Of(downloads, i) # {}
           /\ b.pc # "done" =>
                 /\ Of(localRecords, i) = {}
                 /\ Of(remoteRecords, i) = {}
                 /\ PostsOf(i) = {}

C13_Witness ==
    \E i \in Done :
        /\ builds[i].filesAdded = 2
        /\ isEnabled
        /\ Len(localRecords) = 1
        /\ Len(posts) = 1
        /\ posts[1].body.zippedSizeBytes = blobSize(builds[i].contentBlob[1], <<>>)
        /\ \A d \in Deflated :
              blobSize(builds[i].finalBlob[1], << d >>)
                  > blobSize(builds[i].contentBlob[1], <<>>)

\* C14: whatever becomes of the POST (it throws, it is answered with a status
\* that is not OK, it is answered OK) and also when the sink is not
\* configured, a build that reached its last step has updated the local
\* statistics, has shown the success toast and no error toast, and has left
\* isZipping false; the promise of recordEvent never rejects, and its
\* settling changes nothing of the page.
C14_SinkIsolation ==
    /\ [](\A k \in 1..Len(posts) : posts[k].state \in {"sent", "true", "false"})
    /\ [](\A i \in Done :
             /\ Of(localRecords, i) # {}
             /\ builds[i].toasts[Len(builds[i].toasts)] = "success"
             /\ \A k \in 1..Len(builds[i].toasts) : builds[i].toasts[k] # "error")
    /\ [][\A i \in 1..Len(builds) :
             (builds[i].pc = "finalize" /\ builds'[i].pc = "done") =>
                 isZipping' = FALSE]_vars
    /\ [][(\E k \in 1..Len(posts) : posts'[k].state # posts[k].state) =>
             UNCHANGED << builds, isZipping, progress, localRecords, downloads >>]_vars

C14_Witness ==
    /\ ~isZipping
    /\ \E i \in Done, k \in 1..Len(posts) :
          /\ posts[k].body.build = i
          /\ posts[k].outcome = "threw"
          /\ posts[k].state = "false"
          /\ Of(localRecords, i) # {}
          /\ builds[i].toasts[Len(builds[i].toasts)] = "success"

----------------------------------------------------------------------------
(* SpecMatch: the exclusion predicate as a function of the pattern list and *)
(* the path.                                                                *)

\* Patterns with and without a separator, with and without the "**/" prefix,
\* and one that ends in "/**".
MatchPatterns ==
    PatternUniverse \cup { <<GLOBSTAR, PKG>>, <<SRC, STAR>>, <<SRC, GLOBSTAR>> }

\* Paths with the names of the patterns at depths 1, 2 and 3.
MatchPaths ==
    SkeletonPaths \cup { <<SRC, NODE_MODULES>>, <<SRC, PKG, NODE_MODULES>>,
                         <<SRC, PKG>>, <<SRC, PKG, D_LOG>>, <<NODE_MODULES, SRC, E_TXT>> }

MatchInit ==
    /\ Idle
    /\ \E n \in 0..MaxPatterns :
       \E patterns \in { l \in [1..n -> MatchPatterns] : NoDuplicates(l) },
          path \in MatchPaths :
          probe = [fn |-> "isExcluded", in |-> [patterns |-> patterns, path |-> path],
                   out |-> <<>>]

\* isExcludedByPattern(path) of the page, isExcluded(path) of the preview.
MatchApply ==
    /\ probe.fn = "isExcluded"
    /\ probe.out = <<>>
    /\ probe' = [probe EXCEPT !.out =
                    << [page |-> isExcludedByPattern(probe.in.path, probe.in.patterns),
                        preview |-> isExcluded(probe.in.path, probe.in.patterns)] >>]
    /\ UNCHANGED sessionVars

SpecMatch == MatchInit /\ [][MatchApply]_vars

\* The pattern the claim says is compiled for p.
CompiledFor(p) == IF Len(p) = 1 THEN <<GLOBSTAR>> \o p ELSE p

\* C15: with p compiled as **/p when p has no "/" and as p otherwise, a path
\* is excluded exactly when it matches one of the compiled patterns, for the
\* page and for the preview alike; so a bare name such as node_modules
\* excludes an entry of that name at every depth, and a pattern with a "/"
\* is anchored at the root.
C15_MatcherResult ==
    (probe.fn = "isExcluded" /\ probe.out # <<>>) =>
        LET path == probe.in.path
            patterns == probe.in.patterns
            excluded == probe.out[1].page
        IN /\ probe.out[1].preview = excluded
           /\ excluded = (\E i \in 1..Len(patterns) :
                             MinimatchMatch(CompiledFor(patterns[i]), path))
           /\ (<<NODE_MODULES>> \in Range(patterns)
                   /\ path[Len(path)] = NODE_MODULES) => excluded
           /\ patterns = << <<NODE_MODULES>> >> =>
                 (excluded = (path[Len(path)] = NODE_MODULES))
           /\ patterns = << <<SRC, E_TXT>> >> => (excluded = (path = <<SRC, E_TXT>>))

C15_Witness ==
    /\ probe.fn = "isExcluded"
    /\ probe.out # <<>>
    /\ probe.in.patterns = << <<NODE_MODULES>> >>
    /\ probe.in.path = <<SRC, PKG, NODE_MODULES>>
    /\ probe.out[1].page

----------------------------------------------------------------------------
(* Select all and deselect all (SpecSel) *)

FileNodes(t) == { n \in TreeNodes(t) : n.kind = "file" }

\* C16: selectAll leaves the excluded set empty and deselectAll leaves it the
\* set of the paths of all nodes of the tree, the root's among them; after
\* deselectAll the stats are 0 files, 0 folders, 0 bytes, and after a
\* selectAll that follows a deselectAll, whatever the set was before, the set
\* is empty and the stats are all files of the tree and the sum of their
\* sizes (5 files on the tree of five files).
C16_SelectAllDeselectAll ==
    /\ last.op = "selectAll" => excludedPaths = {}
    /\ last.op = "deselectAll" =>
          /\ excludedPaths = { n.path : n \in TreeNodes(tree) }
          /\ tree[1].path \in excludedPaths
          /\ treeStats(tree, excludedPaths) = [files |-> 0, folders |-> 0, size |-> 0]
          /\ fileCount = 0 /\ rawSize = 0
    /\ (last.op = "selectAll" /\ last.prev # <<>>) =>
          /\ excludedPaths = {}
          /\ treeStats(tree, excludedPaths).files = Cardinality(FileNodes(tree))
          /\ treeStats(tree, excludedPaths).size = SumOfSizes(FileNodes(tree))
          /\ fileCount = Cardinality(FileNodes(tree))
          /\ rawSize = SumOfSizes(FileNodes(tree))
          /\ (disk = FiveFiles /\ treeOf = <<>>) => fileCount = 5

\* selectAll after deselectAll on the tree of five files, the set not empty
\* before the two.
C16_Witness ==
    /\ last.op = "selectAll"
    /\ last.prev # <<>>
    /\ last.prev[1] # {}
    /\ last.before = { n.path : n \in TreeNodes(tree) }
    /\ disk = FiveFiles
    /\ treeOf = <<>>
    /\ fileCount = 5
    /\ rawSize = 5130

----------------------------------------------------------------------------
(* SpecRepeat: a session with up to MaxRepeats builds of one folder, while *)
(* the clock advances.                                                     *)

\* The clock new Date() reads moves on, in steps of the two seconds a ZIP
\* entry date resolves.
Tick ==
    /\ now < MaxTime
    /\ now' = now + 1
    /\ UNCHANGED << disk, budget, isEnabled, probe, picking, isOpen, zipFileName,
                    excludePatterns, store,
                    directoryHandle, unselectedPaths, rawSize, fileCount, isZipping,
                    progress, tree, treeOf, excludedPaths, isLoading, scans, builds,
                    downloads, localRecords, remoteRecords, posts, last, used >>

RepeatInit(b) ==
    /\ disk = DiskOf({ <<A_LOG>>, <<B_TXT>> })
    /\ excludePatterns \in { <<>>, << LogPattern, <<NODE_MODULES>> >> }
    /\ tree = readTree(disk, excludePatterns)
    /\ treeOf = excludePatterns
    /\ excludedPaths = {}
    /\ last = BuiltOp(disk, excludePatterns)
    /\ directoryHandle = 1
    /\ unselectedPaths = reported(tree, excludedPaths)[1]
    /\ rawSize = reported(tree, excludedPaths)[2]
    /\ fileCount = reported(tree, excludedPaths)[3]
    /\ isZipping = FALSE
    /\ progress = <<>>
    /\ isLoading = FALSE
    /\ scans = <<>>
    /\ builds = <<>>
    /\ downloads = <<>>
    /\ localRecords = <<>>
    /\ remoteRecords = <<>>
    /\ used = 1
    /\ budget = b
    /\ store = << JSONstringify(excludePatterns) >>
    /\ isEnabled = TRUE
    /\ posts = <<>>
    /\ probe = NoProbe
    /\ now = 0
    /\ picking = 0
    /\ isOpen = FALSE
    /\ zipFileName = (IF directoryHandle = 0 THEN <<>> ELSE disk.name)

\* A session that keeps its folder and its patterns: selection, builds and
\* the clock.
SpecRepeat ==
    RepeatInit([actions |-> MaxActions, builds |-> MaxRepeats])
               /\ [][\/ Toggle
                    \/ SelectAll
                    \/ DeselectAll
                    \/ CreateZip
                    \/ BuildImportFail
                    \/ BuildBegin
                    \/ BuildCounted
                    \/ BuildCollect
                    \/ BuildCollected
                    \/ BuildCompress
                    \/ BuildDigest
                    \/ BuildFinal
                    \/ BuildFail
                    \/ PostAnswered
                    \/ Tick]_vars

\* The builds whose digest was computed, and the digest: the one the manifest
\* of the build prints.
Digested == { i \in 1..Len(builds) : builds[i].pc \in {"finalize", "done"} }

DigestOf(i) == builds[i].zip.files[<<MANIFEST>>].content.meta.md5Hash

\* C17: two builds that added the same files, in the same order and with
\* the same content, computed the same digest, whenever each of them ran.
C17_DigestDeterminism ==
    \A i, j \in Digested :
        ( /\ builds[i].added = builds[j].added
          /\ \A q \in Range(builds[i].added) :
                builds[i].zip.files[q].content = builds[j].zip.files[q].content )
            => DigestOf(i) = DigestOf(j)

\* A createZip between setIsZipping(true) and its finally block.
InTry == {"count", "collect", "compress", "digest", "finalize"}

\* A createZip that has returned.
Ended == {"done", "failed"}

\* C20: at most one build is in flight: no createZip is counting,
\* collecting or in a later step of its try block while an earlier createZip
\* has not ended.
C20_SingleFlight ==
    \A i, j \in 1..Len(builds) :
        (i < j /\ builds[j].pc \in InTry) => builds[i].pc \in Ended

----------------------------------------------------------------------------
(* SpecStore: the pattern list and its stored copy, from the start of a *)
(* session on.                                                          *)

\* A session starts: nothing stored or a list a former session saved; the
\* page is rendered inside React.StrictMode, whose second run of the effects
\* a development build makes and a production build does not.
StoreInit ==
    /\ disk = Dir(ROOT, <<>>)
    /\ excludePatterns = <<>>
    /\ directoryHandle = 0
    /\ unselectedPaths = {}
    /\ rawSize = 0
    /\ fileCount = 0
    /\ isZipping = FALSE
    /\ progress = <<>>
    /\ tree = <<>>
    /\ treeOf = <<>>
    /\ excludedPaths = {}
    /\ isLoading = FALSE
    /\ scans = <<>>
    /\ builds = <<>>
    /\ downloads = <<>>
    /\ localRecords = <<>>
    /\ remoteRecords = <<>>
    /\ last = NoOp
    /\ used = 0
    /\ budget = [actions |-> MaxActions, builds |-> 0]
    /\ store \in {<<>>} \cup { << JSONstringify(l) >> : l \in StoredPatternLists }
    /\ isEnabled = FALSE
    /\ posts = <<>>
    /\ \E strict \in BOOLEAN :
          probe = [fn |-> "mount", in |-> [strict |-> strict, saved |-> store],
                   out |-> <<>>]
    /\ now = 0
    /\ picking = 0
    /\ isOpen = FALSE
    /\ zipFileName = (IF directoryHandle = 0 THEN <<>> ELSE disk.name)

\* The first commit of the page, through to the render its effects ask for;
\* no event is handled before.
Mount ==
    /\ probe.fn = "mount"
    /\ excludePatterns' = startUp(store, probe.in.strict).patterns
    /\ store' = startUp(store, probe.in.strict).store
    /\ probe' = [probe EXCEPT !.fn = "ready"]
    /\ UNCHANGED << disk, budget, isEnabled, now, picking, isOpen, zipFileName, directoryHandle,
                    unselectedPaths, rawSize, fileCount, isZipping, progress, tree, treeOf,
                    excludedPaths, isLoading, scans, builds, downloads, localRecords,
                    remoteRecords, posts, last, used >>

SpecStore ==
    StoreInit /\ [][\/ Mount
                   \/ TogglePresets
                   \/ ClosePresets
                   \/ handleAddPattern
                   \/ handleRemovePattern
                   \/ handleClearAllPatterns
                   \/ handleApplyPresetPatterns]_vars

\* C18: once the start-up effects have run, once or twice, a list L that was
\* stored when the session started is the pattern list of the page and is
\* still what the store holds; and after the start-up and after every
\* change of the list the store holds the list of the page.
C18_StoredListRoundTrips ==
    probe.fn = "ready" =>
        /\ store = << JSONstringify(excludePatterns) >>
        /\ (used = 0 /\ probe.in.saved # <<>>) =>
              /\ excludePatterns = JSONparse(probe.in.saved[1])
              /\ store = probe.in.saved

----------------------------------------------------------------------------
(* SpecServer: POST /api/events of the statistics server, as a function of *)
(* one request.  The repository holds two servers: the first one, and the   *)
(* one with the origin check.                                               *)

\* A value of the JSON body: a whole number v (whole), the number v + 0.5
\* (not whole), or something that is not a number (a string, or the field
\* is missing).
Field(type, whole, v) == [type |-> type, whole |-> whole, v |-> v]

\* The two limits.  Sizes are counted in KiB throughout (the documented
\* 1048576 and 524288 bytes are 1024 and 512), so that the limit of
\* 100 * 1024 * 1024 * 1024 bytes is a number of the model.
MaxFilesCount == 1000000
MaxRawSize == 104857600    \* 100 * 1024 * 1024 KiB

\* The requests: the Origin header (none, as curl sends, the allowed one of
\* the page, or another one), the body, the server that answers, and
\* whether the database answers its query.  No signature headers.
Requests ==
    LET counts == { Field("number", TRUE, v) : v \in {0 - 1, 0, 42, MaxFilesCount + 1} }
        sizes == { Field("number", TRUE, v) :
                      v \in {0 - 1, 0, 512, 1024, 1127, MaxRawSize + 1} }
        others == { Field("number", FALSE, 1), Field("string", FALSE, 0) }
    IN [origin : {"none", "allowed", "other"},
        filesCount : counts \cup others,
        rawSizeBytes : sizes \cup others,
        zippedSizeBytes : sizes \cup others,
        server : {"first", "current"},
        db : {"up", "down"}]

Response(status, success, rows) == [status |-> status, success |-> success, rows |-> rows]

\* x < 0 and x > n for a value that is a number.
Negative(x) == x.v < 0
Above(x, n) == IF x.whole THEN x.v > n ELSE x.v >= n

\* The answer to POST /api/events and the number of rows it inserted.
postEvents(req) ==
    LET fields == { req.filesCount, req.rawSizeBytes, req.zippedSizeBytes }
        IsZero(x) == x.whole /\ x.v = 0
        Twice(x) == IF x.whole THEN 2 * x.v ELSE 2 * x.v + 1
        \* The origin callback of cors: the first server hands an error to
        \* the error handler; the current one lets every origin pass.
        corsRejects == req.server = "first" /\ req.origin = "other"
        \* if (!origin || !allowedOrigins.includes(origin)) return res.status(403)
        originRejects == req.server = "current" /\ req.origin # "allowed"
        \* typeof x !== 'number' || x < 0
        invalidInput == \E x \in fields : x.type # "number" \/ Negative(x)
        \* !Number.isInteger(x)
        notIntegers == \E x \in fields : ~x.whole
        \* filesCount > 1000000 || rawSizeBytes > 100 * 1024 * 1024 * 1024
        exceedsLimits ==
            Above(req.filesCount, MaxFilesCount) \/ Above(req.rawSizeBytes, MaxRawSize)
        \* files = 0 but size > 0; zipped > raw * 1.1; files but zero size
        insane ==
            \/ IsZero(req.filesCount) /\ Above(req.rawSizeBytes, 0)
            \/ 10 * Twice(req.zippedSizeBytes) > 11 * Twice(req.rawSizeBytes)
            \/ Above(req.filesCount, 0) /\ IsZero(req.rawSizeBytes)
        \* The INSERT throws when the database does not answer, or when a
        \* value is no integer for the INTEGER and BIGINT columns.
        insertThrows == req.db = "down" \/ notIntegers
    IN IF corsRejects THEN Response(500, FALSE, 0)
       ELSE IF originRejects THEN Response(403, FALSE, 0)
       ELSE IF invalidInput THEN Response(400, FALSE, 0)
       ELSE IF req.server = "current" /\ notIntegers THEN Response(400, FALSE, 0)
       ELSE IF exceedsLimits THEN Response(400, FALSE, 0)
       ELSE IF req.server = "current" /\ insane THEN Response(400, FALSE, 0)
       ELSE IF insertThrows THEN Response(500, FALSE, 0)
       ELSE Response(201, TRUE, 1)

ServerInit ==
    /\ Idle
    /\ \E req \in Requests : probe = [fn |-> "postEvents", in |-> req, out |-> <<>>]

ServerAnswer ==
    /\ probe.fn = "postEvents"
    /\ probe.out = <<>>
    /\ probe' = [probe EXCEPT !.out = << postEvents(probe.in) >>]
    /\ UNCHANGED sessionVars

SpecServer == ServerInit /\ [][ServerAnswer]_vars

\* The body the documentation posts: 42 files, 1 MiB raw, 512 KiB zipped.
Documented(req) ==
    /\ req.filesCount = Field("number", TRUE, 42)
    /\ req.rawSizeBytes = Field("number", TRUE, 1024)
    /\ req.zippedSizeBytes = Field("number", TRUE, 512)

\* The three fields are non-negative numbers within the limits.
WithinLimits(req) ==
    /\ \A x \in { req.filesCount, req.rawSizeBytes, req.zippedSizeBytes } :
          x.type = "number" /\ ~Negative(x)
    /\ ~Above(req.filesCount, MaxFilesCount)
    /\ ~Above(req.rawSizeBytes, MaxRawSize)

\* C19: with the database up, a POST to /api/events without an Origin header
\* or from the page, whose three fields are non-negative numbers within the
\* limits, inserts exactly one row and is answered 201 with success = true
\* (so the documented curl request); a body with a field that is no number,
\* is negative or is over a limit inserts no row and is answered 400.
C19_RecordEventAsDocumented ==
    (probe.fn = "postEvents" /\ probe.out # <<>> /\ probe.in.db = "up"
        /\ probe.in.origin \in {"none", "allowed"}) =>
        /\ WithinLimits(probe.in) => probe.out[1] = Response(201, TRUE, 1)
        /\ (Documented(probe.in) /\ probe.in.origin = "none") =>
              probe.out[1] = Response(201, TRUE, 1)
        /\ ~WithinLimits(probe.in) =>
              probe.out[1].status = 400 /\ probe.out[1].rows = 0

----------------------------------------------------------------------------
(* The tree and the selection across scans (Spec) *)

\* The tree of the latest root and the latest pattern list.
LatestTree == IF directoryHandle = 0 THEN <<>> ELSE readTree(disk, excludePatterns)

\* C21: once no scan is in flight, the tree is the one built from the
\* latest root and the latest pattern list, and the file count and the raw
\* size of the page are those of that tree, in whatever order the scans
\* completed; and no build starts while the tree on which its counts were
\* taken is not the tree of the latest pattern list.
C21_NoStaleTree ==
    /\ [](scans = <<>> =>
            /\ tree = LatestTree
            /\ fileCount = treeStats(LatestTree, excludedPaths).files
            /\ rawSize = treeStats(LatestTree, excludedPaths).size)
    /\ [][Len(builds') > Len(builds) => tree = LatestTree]_vars

----------------------------------------------------------------------------
(* SpecPicked: a session from the moment its first folder has been picked *)
(* and scanned, with MaxActions user actions to come.                     *)

PickedInit ==
    /\ disk \in { DiskOf({ <<A_LOG>>, <<B_TXT>> }), DiskOf({ <<SRC>>, <<SRC, E_TXT>> }) }
    /\ excludePatterns \in { <<>>, << LogPattern, <<ROOT>> >> }
    /\ tree = readTree(disk, excludePatterns)
    /\ tree # <<>>
    /\ treeOf = excludePatterns
    /\ excludedPaths = {}
    /\ last = BuiltOp(disk, excludePatterns)
    /\ directoryHandle = 1
    /\ unselectedPaths = reported(tree, excludedPaths)[1]
    /\ rawSize = reported(tree, excludedPaths)[2]
    /\ fileCount = reported(tree, excludedPaths)[3]
    /\ isZipping = FALSE
    /\ progress = <<>>
    /\ isLoading = FALSE
    /\ scans = <<>>
    /\ builds = <<>>
    /\ downloads = <<>>
    /\ localRecords = <<>>
    /\ remoteRecords = <<>>
    /\ used = 1
    /\ budget = [actions |-> MaxActions + 1, builds |-> MaxBuilds]
    /\ store = << JSONstringify(excludePatterns) >>
    /\ isEnabled = TRUE
    /\ posts = <<>>
    /\ probe = NoProbe
    /\ now = 0
    /\ picking = 0
    /\ isOpen = FALSE
    /\ zipFileName = (IF directoryHandle = 0 THEN <<>> ELSE disk.name)

SpecPicked == PickedInit /\ [][Next]_vars

\* C22: the manual exclusions are dropped with the root: when a folder is
\* selected the excluded set of the tree component and the unselected paths
\* of the page are both empty, and the two sets are equal at all times (the
\* report effect runs with the change that triggers it).
C22_SelectionDiscardedWithRoot ==
    /\ [](unselectedPaths = excludedPaths)
    /\ [][(directoryHandle' # directoryHandle /\ directoryHandle' # 0) =>
             (excludedPaths' = {} /\ unselectedPaths' = {})]_vars

\* C23: a scan that fails leaves no tree: after the rejection of readTree
\* the component holds no tree, the page holds 0 files and 0 bytes and the
\* loading indicator is off, for the first scan of a root and for a rescan.
C23_FailedScanNoTree ==
    [][ScanFail => (tree' = <<>> /\ fileCount' = 0 /\ rawSize' = 0 /\ ~isLoading')]_vars

----------------------------------------------------------------------------
(* Paths of the tree (SpecSel) *)

\* C24: in a tree built by readTree no two nodes have the same path, the
\* root node included, and the path of every node below the root is the
\* relative path of a file or directory of the folder, of the node's kind;
\* also when a child of the root has the name of the root.
C24_PathsUnique ==
    tree # <<>> =>
        LET nodes == NodeList(tree[1])
        IN /\ \A i, j \in 1..Len(nodes) : i # j => nodes[i].path # nodes[j].path
           /\ \A i \in 2..Len(nodes) :
                 nodes[i].path \in (IF nodes[i].kind = "file" THEN DiskFiles(disk)
                                    ELSE DiskDirs(disk))

----------------------------------------------------------------------------
(* Entries and progress of a build (Spec) *)

\* The surviving files of build b in the order of the traversal.
SurvivorsInOrder(b) ==
    LET IsFile(ev) == ev.kind = "file"
        files == SelectSeq(walk(b), IsFile)
    IN [k \in 1..Len(files) |-> files[k].path]

\* C25: when the Collect phase of a build ends, the archive holds one entry
\* per surviving file, added in traversal order, and no directory entry: a
\* surviving directory, with or without surviving files, adds none.
C25_NoDirectoryEntries ==
    \A i \in 1..Len(builds) :
        builds[i].pc = "compress" =>
            /\ builds[i].zip.dirs = {}
            /\ DOMAIN builds[i].zip.files = BuildSurvivors(builds[i])
            /\ builds[i].added = SurvivorsInOrder(builds[i])

\* Build i moves from one position to another in this step.
Moves(i, from, to) ==
    /\ i \in 1..Len(builds)
    /\ builds[i].pc = from
    /\ builds'[i].pc = to

\* C26: progress, when not null, has 0 <= current <= total; the end of the
\* Count phase sets it to current 0 and total the number of surviving
\* files; each file added raises current by exactly 1 and leaves total as
\* it is; and when the Collect phase ends current = total = filesAdded.
C26_ProgressAccounting ==
    /\ [](progress # <<>> =>
            (0 <= progress[1].current /\ progress[1].current <= progress[1].total))
    /\ [][\A i \in 1..Len(builds) :
            /\ Moves(i, "count", "collect") =>
                  progress' = << [current |-> 0,
                                  total |-> Cardinality(BuildSurvivors(builds[i]))] >>
            /\ (Moves(i, "collect", "collect")
                    /\ builds'[i].filesAdded # builds[i].filesAdded) =>
                  /\ builds'[i].filesAdded = builds[i].filesAdded + 1
                  /\ progress # <<>> /\ progress' # <<>>
                  /\ progress'[1].current = progress[1].current + 1
                  /\ progress'[1].total = progress[1].total
            /\ Moves(i, "collect", "compress") =>
                  /\ progress # <<>>
                  /\ progress[1].current = progress[1].total
                  /\ progress[1].total = builds[i].filesAdded]_vars

----------------------------------------------------------------------------
(* Termination of the builds: sessions that start with the folder picked *)
(* and scanned and take any step of the page, in which every await of    *)
(* createZip eventually resolves or rejects.  A session has one build    *)
(* and one more user action (a folder picked, a reset, a name typed, a   *)
(* pattern edit, a selection), or up to MaxRepeats builds, which may     *)
(* overlap; picker requests, the presets menu, scans and the answers to  *)
(* the POSTs are not limited.                                            *)

\* A pending await of some createZip settles.
BuildStep ==
    \/ BuildImportFail
    \/ BuildBegin
    \/ BuildCounted
    \/ BuildCollect
    \/ BuildCollected
    \/ BuildCompress
    \/ BuildDigest
    \/ BuildFinal
    \/ BuildFail

SpecSessionLive ==
    /\ \E b \in { [actions |-> MaxActions, builds |-> 1],
                   [actions |-> 1, builds |-> MaxRepeats] } : RepeatInit(b)
    /\ [][Next]_vars
    /\ WF_vars(BuildStep)

\* C27: every createZip that was started ends, in success or in failure; no
\* user action changes or ends a build; and the step that ends a build
\* leaves isZipping false and progress null.
C27_BuildsTerminate ==
    /\ \A i \in 1..MaxRepeats :
          [](Len(builds) >= i => <>(Len(builds) >= i /\ builds[i].pc \in Ended))
    /\ [][used' # used => builds' = builds]_vars
    /\ [][\A i \in 1..Len(builds) :
            (builds[i].pc \notin Ended /\ builds'[i].pc \in Ended) =>
                (~isZipping' /\ progress' = <<>>)]_vars

\* A session with two builds that have both ended, the first in success and
\* the second in a failure while collecting, with a picker request pending
\* and the presets menu open.
C27_Witness ==
    /\ Len(builds) = 2
    /\ builds[1].pc = "done"
    /\ builds[2].pc = "failed"
    /\ builds[2].failedAt = "collect"
    /\ ~isZipping /\ progress = <<>>
    /\ picking > 0
    /\ isOpen

----------------------------------------------------------------------------
(* Notifications (Spec) *)

\* selectFolder: the kinds of the toasts of one run, for a picker that
\* resolves with a handle and for one that rejects (dismissed).
selectFolderToasts(outcome) ==
    IF outcome = "picked" THEN << "success" >> ELSE << "warning" >>

\* C28: every run that has ended has shown exactly one notification: a
\* dismissed folder picker, a build that succeeded, and a build that failed
\* in the module load, the count, a file read, a codec run or the digest.
C28_OneNotificationPerRun ==
    /\ Len(selectFolderToasts("dismissed")) = 1
    /\ \A i \in 1..Len(builds) :
          builds[i].pc \in Ended => Len(builds[i].toasts) = 1

----------------------------------------------------------------------------
(* The exclusion predicate of a build (Spec) *)

\* C29: a build evaluates the pattern list and the unselected paths that
\* were in effect when createZip was invoked: they are what the build holds
\* from its first step to its last, the total of its Count phase is the
\* number of files that survive them, and the files of its Collect phase are
\* those files, in traversal order, whatever was toggled or edited in
\* between; so the total counted equals filesAdded.
C29_FixedPredicate ==
    /\ [][\A i \in 1..Len(builds') :
            IF i > Len(builds)
            THEN /\ builds'[i].patterns = excludePatterns
                 /\ builds'[i].unselected = unselectedPaths
            ELSE /\ builds'[i].patterns = builds[i].patterns
                 /\ builds'[i].unselected = builds[i].unselected
                 /\ Moves(i, "count", "collect") =>
                       progress'[1].total = Cardinality(BuildSurvivors(builds[i]))]_vars
    /\ [](\A i \in Collected :
            /\ builds[i].added = SurvivorsInOrder(builds[i])
            /\ Range(builds[i].added) = BuildSurvivors(builds[i])
            /\ builds[i].filesAdded = Cardinality(BuildSurvivors(builds[i])))

\* A build whose walk is through and has added a file, while the unselected
\* paths of the page are no longer those the build was invoked with.
C29_Witness ==
    \E i \in Collected :
        /\ builds[i].unselected # unselectedPaths
        /\ builds[i].filesAdded > 0
        /\ walkLive(builds[i]) # walk(builds[i])

----------------------------------------------------------------------------
(* The local statistics (SpecStats) *)

MAX_HISTORY_ITEMS == 50
MaxRecordings == 52     \* recordZipCreation calls between two clearStats calls
MaxClears == 1          \* clearStats calls
MaxVaried == 1          \* recordings of the second of the StatsData values

defaultStats ==
    [totalZipsCreated |-> 0, totalFilesZipped |-> 0, totalRawSizeBytes |-> 0,
     totalZippedSizeBytes |-> 0, firstUsedAt |-> <<>>, lastUsedAt |-> <<>>]

\* recordZipCreation(data) at time now, on the state st = [stats, history]:
\* the two functional updates. A null time is <<>>; the ratio is the exact
\* quotient <<numerator, denominator>>; of the id only its Date.now() part
\* is kept.
recordZipCreationOldestFirst(st, data) ==
    [stats |-> [totalZipsCreated |-> st.stats.totalZipsCreated + 1,
                totalFilesZipped |-> st.stats.totalFilesZipped + data.filesCount,
                totalRawSizeBytes |-> st.stats.totalRawSizeBytes + data.rawSizeBytes,
                totalZippedSizeBytes |->
                    st.stats.totalZippedSizeBytes + data.zippedSizeBytes,
                firstUsedAt |-> IF st.stats.firstUsedAt # <<>>
                                THEN st.stats.firstUsedAt ELSE << now >>,
                lastUsedAt |-> << now >>],
     history |->
        LET historyItem ==
                [id |-> << now >>, timestamp |-> now, folderName |-> data.folderName,
                 filesCount |-> data.filesCount, rawSizeBytes |-> data.rawSizeBytes,
                 zippedSizeBytes |-> data.zippedSizeBytes,
                 compressionRatio |->
                     IF data.rawSizeBytes > 0
                     THEN << (data.rawSizeBytes - data.zippedSizeBytes) * 100,
                             data.rawSizeBytes >>
                     ELSE << 0, 1 >>]
            all == Append(st.history, historyItem)
        IN  SubSeq(all, 1, IF Len(all) < MAX_HISTORY_ITEMS THEN Len(all)
                           ELSE MAX_HISTORY_ITEMS)]

recordZipCreation(st, data) ==
    [stats |-> [totalZipsCreated |-> st.stats.totalZipsCreated + 1,
                totalFilesZipped |-> st.stats.totalFilesZipped + data.filesCount,
                totalRawSizeBytes |-> st.stats.totalRawSizeBytes + data.rawSizeBytes,
                totalZippedSizeBytes |->
                    st.stats.totalZippedSizeBytes + data.zippedSizeBytes,
                firstUsedAt |-> IF st.stats.firstUsedAt # <<>>
                                THEN st.stats.firstUsedAt ELSE << now >>,
                lastUsedAt |-> << now >>],
     history |->
        LET historyItem ==
                [id |-> << now >>, timestamp |-> now, folderName |-> data.folderName,
                 filesCount |-> data.filesCount, rawSizeBytes |-> data.rawSizeBytes,
                 zippedSizeBytes |-> data.zippedSizeBytes,
                 compressionRatio |->
                     IF data.rawSizeBytes > 0
                     THEN << (data.rawSizeBytes - data.zippedSizeBytes) * 100,
                             data.rawSizeBytes >>
                     ELSE << 0, 1 >>]
            all == << historyItem >> \o st.history
        IN  SubSeq(all, 1, IF Len(all) < MAX_HISTORY_ITEMS THEN Len(all)
                           ELSE MAX_HISTORY_ITEMS)]

clearStats(st) == [stats |-> defaultStats, history |-> <<>>]

\* The values recordZipCreation is called with.
StatsData ==
    << [folderName |-> ROOT, filesCount |-> 1, rawSizeBytes |-> 4, zippedSizeBytes |-> 2],
       [folderName |-> ROOT, filesCount |-> 2, rawSizeBytes |-> 0, zippedSizeBytes |-> 1] >>

\* The hook after its mount on an empty localStorage: the default statistics
\* and an empty history. probe.in keeps the calls made: the recordings since
\* the last clearStats with their times, and the numbers of clearStats calls
\* and of recordings of the second value.
StatsInit ==
    /\ Idle
    /\ probe = [fn |-> "stats",
                in |-> [log |-> <<>>, clears |-> 0, varied |-> 0],
                out |-> [stats |-> defaultStats, history |-> <<>>]]

StatsRecord ==
    /\ probe.fn = "stats"
    /\ Len(probe.in.log) < MaxRecordings
    /\ \E d \in 1..Len(StatsData) :
          /\ d = 2 => probe.in.varied < MaxVaried
          /\ probe' = [probe EXCEPT
                         !.in.log = Append(@, [data |-> StatsData[d], at |-> now]),
                         !.in.varied = IF d = 2 THEN @ + 1 ELSE @,
                         !.out = recordZipCreation(@, StatsData[d])]
    /\ UNCHANGED sessionVars

StatsClear ==
    /\ probe.fn = "stats"
    /\ probe.in.clears < MaxClears
    /\ probe' = [probe EXCEPT !.in.log = <<>>,
                              !.in.clears = @ + 1,
                              !.out = clearStats(@)]
    /\ UNCHANGED sessionVars

SpecStats == StatsInit /\ [][StatsRecord \/ StatsClear \/ Tick]_vars

RECURSIVE SumLog(_, _)
SumLog(log, field) ==
    IF log = <<>> THEN 0
    ELSE log[1].data[field] + SumLog(Tail(log), field)

\* C30: with n the recordings since the last clearStats, totalZipsCreated is
\* n, the three totals are the sums of the recorded values, the history
\* holds min(n, 50) items, the k-th being the k-th newest recording,
\* firstUsedAt is the time of the first of the recordings and lastUsedAt
\* that of the last (both null when n = 0); clearStats leaves the default
\* statistics and an empty history.
C30_StatsInvariant ==
    /\ [](probe.fn = "stats" =>
            LET log == probe.in.log
                n == Len(log)
                stats == probe.out.stats
                history == probe.out.history
            IN  /\ stats.totalZipsCreated = n
                /\ stats.totalFilesZipped = SumLog(log, "filesCount")
                /\ stats.totalRawSizeBytes = SumLog(log, "rawSizeBytes")
                /\ stats.totalZippedSizeBytes = SumLog(log, "zippedSizeBytes")
                /\ Len(history) = (IF n < MAX_HISTORY_ITEMS THEN n ELSE MAX_HISTORY_ITEMS)
                /\ \A k \in 1..Len(history) :
                      /\ history[k].timestamp = log[n + 1 - k].at
                      /\ history[k].folderName = log[n + 1 - k].data.folderName
                      /\ history[k].filesCount = log[n + 1 - k].data.filesCount
                      /\ history[k].rawSizeBytes = log[n + 1 - k].data.rawSizeBytes
                      /\ history[k].zippedSizeBytes = log[n + 1 - k].data.zippedSizeBytes
                /\ stats.firstUsedAt = (IF n = 0 THEN <<>> ELSE << log[1].at >>)
                /\ stats.lastUsedAt = (IF n = 0 THEN <<>> ELSE << log[n].at >>))
    /\ [][StatsClear => probe'.out = [stats |-> defaultStats, history |-> <<>>]]_vars

\* More than 50 recordings after a clearStats call, the first and the last
\* at different times and one of them of the second value: the history is
\* full and has dropped the oldest.
C30_Witness ==
    /\ probe.fn = "stats"
    /\ probe.in.clears = 1
    /\ Len(probe.in.log) > MAX_HISTORY_ITEMS
    /\ Len(probe.out.history) = MAX_HISTORY_ITEMS
    /\ probe.in.varied = 1
    /\ probe.out.stats.firstUsedAt # probe.out.stats.lastUsedAt

====
